---- MODULE Spec2Model ----
(***************************************************************************)
(* Model of the Go struct memory-layout engine of go-memory-visualizer:    *)
(* MemoryCalculator (src/src/memoryCalculator.ts) and GoParser             *)
(* (src/src/goParser.ts).                                                  *)
(*                                                                         *)
(* Numbers.  The TypeScript code computes with JavaScript Numbers          *)
(* (IEEE-754 doubles, 53-bit significand).  Integers up to 2^53 are exact  *)
(* and every sum beyond is rounded to the nearest representable value,     *)
(* ties to even.  Number.MAX_SAFE_INTEGER is 2^53 - 1.  TLC's integers     *)
(* are 32 bits wide, so the model keeps the arithmetic and scales the      *)
(* significand: MantissaBits stands for 53, MAX_SAFE_INTEGER is            *)
(* 2^MantissaBits - 1 and Fl rounds as a double with that significand.     *)
(*                                                                         *)
(* Strings.  A Go type expression is a string in the code.  Here it is     *)
(* the sequence of its lexemes, each a record [k, n]: k is the lexeme's    *)
(* text and n the value of a run of digits (k = "digits").  startsWith,    *)
(* includes and the regular expression of getTypeInfo are evaluated on     *)
(* that sequence.                                                          *)
(***************************************************************************)
EXTENDS Integers, Sequences, FiniteSets, TLC

\* ------------------------------------------------------------------ bounds
\* Width of the significand of the model's Numbers (53 in JavaScript).
MantissaBits == 10
\* Longest field list of the struct the parser is exercised on.
MaxFields == 3

\* ----------------------------------------------------------------- Numbers
RECURSIVE Pow2(_)
Pow2(n) == IF n = 0 THEN 1 ELSE 2 * Pow2(n - 1)

\* 2^53 in JavaScript: up to it every integer is a Number.
TwoToMantissa == Pow2(MantissaBits)

\* Number.MAX_SAFE_INTEGER
MAX_SAFE_INTEGER == TwoToMantissa - 1

\* Spacing of the representable Numbers around x >= 0.
RECURSIVE Ulp(_)
Ulp(x) == IF x < TwoToMantissa THEN 1 ELSE 2 * Ulp(x \div 2)

\* x >= 0 rounded to a multiple of the spacing u: to the nearest one, and
\* to the one with the even quotient when x is half way between two.
RoundTo(x, u) ==
  IF x % u = 0 THEN x
  ELSE IF 2 * (x % u) < u THEN x - (x % u)
  ELSE IF 2 * (x % u) > u THEN x - (x % u) + u
  ELSE IF (x \div u) % 2 = 0 THEN x - (x % u) ELSE x - (x % u) + u

\* Round-to-nearest, ties-to-even, of the exact integer x >= 0.
FlNat(x) == IF x <= TwoToMantissa THEN x ELSE RoundTo(x, Ulp(x))

\* The Number nearest to the exact integer x.
Fl(x) == IF x < 0 THEN 0 - FlNat(0 - x) ELSE FlNat(x)

\* a + b, a - b, a * b on Numbers.
NumAdd(a, b) == Fl(a + b)
NumSub(a, b) == Fl(a - b)
NumMul(a, b) == Fl(a * b)

Max(a, b) == IF a >= b THEN a ELSE b
Min(a, b) == IF a <= b THEN a ELSE b

\* ------------------------------------------------------------ type names
Sym(s) == [k |-> s, n |-> 0]
Digits(v) == [k |-> "digits", n |-> v]

Named(s) == << Sym(s) >>
PtrTo(t) == << Sym("*") >> \o t
SliceOf(t) == << Sym("["), Sym("]") >> \o t
ArrayOf(c, t) == << Sym("["), Digits(c), Sym("]") >> \o t
ArrayOfConst(c, t) == << Sym("["), Sym(c), Sym("]") >> \o t
MapOf(kt, vt) == << Sym("map"), Sym("[") >> \o kt \o << Sym("]") >> \o vt
ChanOf(t) == << Sym("chan"), Sym(" ") >> \o t

Architectures == {"amd64", "arm64", "386"}

\* -------------------------------------------------------- MemoryCalculator
\* A calculator is the record of the object's fields: [arch, structRegistry].
\* structRegistry is a function from type names to field lists
\* (Array<{name, typeName}>).

\* getPointerSize that forgets the 32-bit architecture.
getPointerSizeAlways8(arch) == 8

getPointerSize(arch) ==
  CASE arch \in {"amd64", "arm64"} -> 8
    [] arch = "386" -> 4
    [] OTHER -> 8

\* The literal cases of the switch in getTypeInfo.
BuiltinInfo(typeName, ptrSize) ==
  CASE typeName \in {Named("bool"), Named("int8"), Named("uint8"), Named("byte")} ->
         [size |-> 1, alignment |-> 1]
    [] typeName \in {Named("int16"), Named("uint16")} ->
         [size |-> 2, alignment |-> 2]
    [] typeName \in {Named("int32"), Named("uint32"), Named("float32"), Named("rune")} ->
         [size |-> 4, alignment |-> 4]
    [] typeName \in {Named("int64"), Named("uint64"), Named("float64"), Named("complex64")} ->
         [size |-> 8, alignment |-> 8]
    [] typeName = Named("complex128") ->
         [size |-> 16, alignment |-> 8]
    [] typeName \in {Named("int"), Named("uint"), Named("uintptr")} ->
         [size |-> ptrSize, alignment |-> ptrSize]
    [] typeName = Named("string") ->
         [size |-> NumMul(ptrSize, 2), alignment |-> ptrSize]

BuiltinNames ==
  { Named(s) : s \in {"bool", "int8", "uint8", "byte", "int16", "uint16",
                      "int32", "uint32", "float32", "rune", "int64", "uint64",
                      "float64", "complex64", "complex128", "int", "uint",
                      "uintptr", "string"} }

\* typeName.startsWith(prefix), prefix given as its lexemes' texts.
StartsWith(typeName, prefix) ==
  /\ Len(typeName) >= Len(prefix)
  /\ \A i \in 1..Len(prefix) : typeName[i].k = prefix[i]

\* typeName.includes(']')
Includes(typeName, s) == \E i \in 1..Len(typeName) : typeName[i].k = s

\* Positions where /\[(\d+)\](.+)/ matches (the expression is not anchored).
ArrayMatches(typeName) ==
  { i \in 1..Len(typeName) :
      /\ i + 3 <= Len(typeName)
      /\ typeName[i].k = "["
      /\ typeName[i + 1].k = "digits"
      /\ typeName[i + 2].k = "]" }

\* typeName.match(/\[(\d+)\](.+)/): the leftmost match, as [count, elemType]
\* with count = parseInt(match[1], 10).
ArrayMatchAt(typeName, i) ==
  [count    |-> Fl(typeName[i + 1].n),
   elemType |-> SubSeq(typeName, i + 3, Len(typeName))]

ArrayMatch(typeName) ==
  ArrayMatchAt(typeName, CHOOSE j \in ArrayMatches(typeName) :
                           \A m \in ArrayMatches(typeName) : j <= m)

\* alignOffset that leaves the offset where it is.
alignOffsetUnaligned(offset, alignment) == offset

alignOffset(offset, alignment) ==
  IF offset % alignment = 0 THEN offset
  ELSE NumAdd(offset, alignment - (offset % alignment))

RECURSIVE getTypeInfo(_, _, _)
RECURSIVE calculateStructSize(_, _, _)
RECURSIVE LayoutFields(_, _, _, _, _)

\* Array branches with a slip: the element's size taken for its alignment,
\* the count dropped, the guard left out.
ArrayInfoSizeAsAlignment(count, elemInfo) ==
  IF \/ count * 8 > MAX_SAFE_INTEGER
     \/ NumMul(count, elemInfo.size) > MAX_SAFE_INTEGER
  THEN [size |-> MAX_SAFE_INTEGER, alignment |-> Max(elemInfo.size, 1)]
  ELSE [size |-> NumMul(count, elemInfo.size), alignment |-> Max(elemInfo.size, 1)]

ArrayInfoOneElement(count, elemInfo) == elemInfo

ArrayInfoUnclamped(count, elemInfo) ==
  [size |-> NumMul(count, elemInfo.size), alignment |-> elemInfo.alignment]

\* The array branch of getTypeInfo for count elements of elemInfo
\* (count > maxSafeSize with maxSafeSize = MAX_SAFE_INTEGER / 8 is
\* count * 8 > MAX_SAFE_INTEGER).
ArrayInfo(count, elemInfo) ==
  IF \/ count * 8 > MAX_SAFE_INTEGER
     \/ NumMul(count, elemInfo.size) > MAX_SAFE_INTEGER
  THEN [size |-> MAX_SAFE_INTEGER, alignment |-> elemInfo.alignment]
  ELSE [size |-> NumMul(count, elemInfo.size), alignment |-> elemInfo.alignment]

\* seen.add that adds nothing.
AddSeenForgets(seen, typeName) == seen

\* seen.add(typeName)
AddSeen(seen, typeName) == seen \cup {typeName}

\* A nested struct that takes at least one byte.
LayoutInfoOneByte(layout) ==
  [size |-> Max(layout.size, 1), alignment |-> layout.alignment]

\* return { size: layout.size, alignment: layout.alignment }
LayoutInfo(layout) == [size |-> layout.size, alignment |-> layout.alignment]

\* getTypeInfo with ptrSize = this.getPointerSize().  The registry branch
\* adds typeName to seen before it lays the registered fields out.
TypeInfoFor(calc, typeName, seen, ptrSize) ==
  IF typeName \in seen THEN [size |-> ptrSize, alignment |-> ptrSize]
  ELSE IF typeName \in BuiltinNames THEN BuiltinInfo(typeName, ptrSize)
  ELSE IF StartsWith(typeName, <<"*">>) \/ StartsWith(typeName, <<"[", "]">>)
    THEN [size |-> ptrSize, alignment |-> ptrSize]
  ELSE IF /\ StartsWith(typeName, <<"[">>)
          /\ Includes(typeName, "]")
          /\ ArrayMatches(typeName) # {}
    THEN ArrayInfo(ArrayMatch(typeName).count,
                   getTypeInfo(calc, ArrayMatch(typeName).elemType, seen))
  ELSE IF StartsWith(typeName, <<"map", "[">>) \/ StartsWith(typeName, <<"chan", " ">>)
    THEN [size |-> ptrSize, alignment |-> ptrSize]
  ELSE IF typeName = Named("interface{}") \/ typeName = Named("any")
    THEN [size |-> NumMul(ptrSize, 2), alignment |-> ptrSize]
  ELSE IF typeName \in DOMAIN calc.structRegistry
    THEN LayoutInfo(calculateStructSize(calc, calc.structRegistry[typeName],
                                        AddSeen(seen, typeName)))
  ELSE [size |-> ptrSize, alignment |-> ptrSize]

getTypeInfo(calc, typeName, seen) ==
  TypeInfoFor(calc, typeName, seen, getPointerSize(calc.arch))

\* The number of getTypeInfo activations on the call stack at the deepest
\* point of getTypeInfo(typeName, seen), counted up to `limit`: the array
\* branch and the registry branch are the two that call getTypeInfo again.
RECURSIVE CallDepth(_, _, _, _)
RECURSIVE FieldsCallDepth(_, _, _, _, _)
CallDepth(calc, typeName, seen, limit) ==
  IF limit = 0 THEN 0
  ELSE IF typeName \in seen \/ typeName \in BuiltinNames THEN 1
  ELSE IF StartsWith(typeName, <<"*">>) \/ StartsWith(typeName, <<"[", "]">>) THEN 1
  ELSE IF /\ StartsWith(typeName, <<"[">>)
          /\ Includes(typeName, "]")
          /\ ArrayMatches(typeName) # {}
    THEN 1 + CallDepth(calc, ArrayMatch(typeName).elemType, seen, limit - 1)
  ELSE IF StartsWith(typeName, <<"map", "[">>) \/ StartsWith(typeName, <<"chan", " ">>)
    THEN 1
  ELSE IF typeName = Named("interface{}") \/ typeName = Named("any") THEN 1
  ELSE IF typeName \in DOMAIN calc.structRegistry
    THEN 1 + FieldsCallDepth(calc, calc.structRegistry[typeName],
                             AddSeen(seen, typeName), 1, limit - 1)
  ELSE 1

\* The deepest of the calls the loop of calculateStructSize makes from field i on.
FieldsCallDepth(calc, fields, seen, i, limit) ==
  IF i > Len(fields) THEN 0
  ELSE Max(CallDepth(calc, fields[i].typeName, seen, limit),
           FieldsCallDepth(calc, fields, seen, i + 1, limit))

\* One turn of the for loop of calculateStructSize: the field of typeInfo is
\* placed at alignedOffset; st holds the loop's variables.
PlaceAt(st, typeInfo, alignedOffset) ==
  [currentOffset |-> NumAdd(alignedOffset, typeInfo.size),
   maxAlignment  |-> Max(st.maxAlignment, typeInfo.alignment),
   fieldOffsets  |-> Append(st.fieldOffsets, alignedOffset),
   paddings      |-> Append(st.paddings, NumSub(alignedOffset, st.currentOffset))]

PlaceField(st, typeInfo) ==
  PlaceAt(st, typeInfo, alignOffset(st.currentOffset, typeInfo.alignment))

\* The for loop with one seen set shared by all the fields of the struct.
LayoutFieldsSharedSeen(calc, fields, seen, i, st) ==
  IF i > Len(fields) THEN st
  ELSE LayoutFields(calc, fields, seen \cup {fields[i].typeName}, i + 1,
         PlaceField(st, getTypeInfo(calc, fields[i].typeName, seen)))

\* The for loop of calculateStructSize from field i on.  Each field is
\* resolved with its own copy of seen.
LayoutFields(calc, fields, seen, i, st) ==
  IF i > Len(fields) THEN st
  ELSE LayoutFields(calc, fields, seen, i + 1,
         PlaceField(st, getTypeInfo(calc, fields[i].typeName, seen)))

\* The end of calculateStructSize: the size rounded up to the alignment.
CloseLayout(st, totalSize) ==
  [size         |-> totalSize,
   alignment    |-> st.maxAlignment,
   fieldOffsets |-> st.fieldOffsets,
   paddings     |-> Append(st.paddings, NumSub(totalSize, st.currentOffset))]

\* The end of calculateStructSize without the final rounding.
FinishLayoutUnrounded(st) == CloseLayout(st, st.currentOffset)

FinishLayout(st) == CloseLayout(st, alignOffset(st.currentOffset, st.maxAlignment))

calculateStructSize(calc, fields, seen) ==
  IF Len(fields) = 0
  THEN [size |-> 0, alignment |-> 1, fieldOffsets |-> << >>, paddings |-> << >>]
  ELSE FinishLayout(LayoutFields(calc, fields, seen, 1,
         [currentOffset |-> 0, maxAlignment |-> 1,
          fieldOffsets |-> << >>, paddings |-> << >>]))

registerStruct(calc, name, fields) ==
  [calc EXCEPT !.structRegistry =
     [t \in DOMAIN calc.structRegistry \cup {name} |->
        IF t = name THEN fields ELSE calc.structRegistry[t]]]

\* A clear that leaves the registry as it is.
clearStructRegistryKeeps(calc) == calc

clearStructRegistry(calc) == [calc EXCEPT !.structRegistry = << >>]

\* ---------------------------------------------------------------- GoParser
\* The content is the sequence of its lines.  A line is the record
\* [kind, names, typeName] of what the parser's expressions see in it:
\*   "struct"    type <names[1]> struct {
\*   "field"     <names, comma separated> <typeName>
\*   "embedded"  <typeName>, one word with an optional leading *
\*   "close"     }
\*   "blank"     an empty line or a // comment
\*   "opaque"    text that neither field expression matches
\* Line numbers count from 0 as in the code: line j of the sequence is
\* lines[j - 1] of the code.
CACHE_LINE_SIZE == 64

StructLine(name) == [kind |-> "struct", names |-> << name >>, typeName |-> << >>]
FieldLine(names, typeName) == [kind |-> "field", names |-> names, typeName |-> typeName]
EmbeddedLine(typeName) == [kind |-> "embedded", names |-> << >>, typeName |-> typeName]
CloseLine == [kind |-> "close", names |-> << >>, typeName |-> << >>]
BlankLine == [kind |-> "blank", names |-> << >>, typeName |-> << >>]
OpaqueLine == [kind |-> "opaque", names |-> << >>, typeName |-> << >>]

\* The fields one line of a struct body declares (fieldMatch / embeddedMatch).
\* A "type X struct {" line met inside a body is matched by fieldMatch: one
\* field named "type" of type "X struct {".
FieldsOfLine(line, lineNumber) ==
  CASE line.kind = "field" ->
         [n \in 1..Len(line.names) |->
            [name |-> line.names[n], typeName |-> line.typeName,
             lineNumber |-> lineNumber]]
    [] line.kind = "embedded" ->
         << [name |-> line.typeName[Len(line.typeName)].k,
             typeName |-> line.typeName, lineNumber |-> lineNumber] >>
    [] line.kind = "struct" ->
         << [name |-> "type",
             typeName |-> << Sym(line.names[1]), Sym(" "), Sym("struct"),
                             Sym(" "), Sym("{") >>,
             lineNumber |-> lineNumber] >>
    [] OTHER -> << >>

\* The inner while loop of both passes, from line j on: the fields collected
\* and the line it stops at (the closing brace, or one past the last line).
RECURSIVE ScanBody(_, _, _)
ScanBody(lines, j, fields) ==
  IF j > Len(lines) THEN [fields |-> fields, stop |-> j]
  ELSE IF lines[j].kind = "close" THEN [fields |-> fields, stop |-> j]
  ELSE ScanBody(lines, j + 1, fields \o FieldsOfLine(lines[j], j - 1))

DropLine(fields) ==
  [n \in 1..Len(fields) |-> [name |-> fields[n].name, typeName |-> fields[n].typeName]]

\* First pass: every struct of the content is registered, nothing is sized.
RECURSIVE registerStructDefinitions(_, _, _)
RegisterStructAt(calc, lines, j, body) ==
  registerStructDefinitions(
    registerStruct(calc, Named(lines[j].names[1]), DropLine(body.fields)),
    lines, body.stop + 1)

registerStructDefinitions(calc, lines, j) ==
  IF j > Len(lines) THEN calc
  ELSE IF lines[j].kind = "struct"
    THEN RegisterStructAt(calc, lines, j, ScanBody(lines, j + 1, << >>))
    ELSE registerStructDefinitions(calc, lines, j + 1)

\* Math.ceil(a / b) for a >= 0, b > 0.
CeilDiv(a, b) == (a + b - 1) \div b

\* field.offset + field.size - 1
FieldEnd(field) == NumSub(NumAdd(field.offset, field.size), 1)

\* The bytes of field inside the window [startOffset, endOffset]
\* (0 when they do not overlap).
BytesInLine(field, startOffset, endOffset) ==
  IF field.offset <= endOffset /\ FieldEnd(field) >= startOffset
  THEN NumAdd(NumSub(Min(FieldEnd(field), endOffset),
                     Max(field.offset, startOffset)), 1)
  ELSE 0

\* bytesUsed after the first n fields.
RECURSIVE BytesUsed(_, _, _, _)
BytesUsed(fields, n, startOffset, endOffset) ==
  IF n = 0 THEN 0
  ELSE IF /\ fields[n].offset <= endOffset
          /\ FieldEnd(fields[n]) >= startOffset
    THEN NumAdd(BytesUsed(fields, n - 1, startOffset, endOffset),
                BytesInLine(fields[n], startOffset, endOffset))
    ELSE BytesUsed(fields, n - 1, startOffset, endOffset)

\* The names of the fields among the first n that overlap the window.
RECURSIVE FieldsInLine(_, _, _, _)
FieldsInLine(fields, n, startOffset, endOffset) ==
  IF n = 0 THEN << >>
  ELSE IF /\ fields[n].offset <= endOffset
          /\ FieldEnd(fields[n]) >= startOffset
    THEN Append(FieldsInLine(fields, n - 1, startOffset, endOffset), fields[n].name)
    ELSE FieldsInLine(fields, n - 1, startOffset, endOffset)

\* One turn of the loop of calculateCacheLines.
CacheLine(fields, lineNum, startOffset, endOffset, bytesUsed) ==
  [lineNumber   |-> lineNum,
   startOffset  |-> startOffset,
   endOffset    |-> endOffset,
   fields       |-> FieldsInLine(fields, Len(fields), startOffset, endOffset),
   bytesUsed    |-> bytesUsed,
   bytesPadding |-> NumSub(NumAdd(NumSub(endOffset, startOffset), 1), bytesUsed)]

CacheLineAt(fields, lineNum, startOffset, endOffset) ==
  CacheLine(fields, lineNum, startOffset, endOffset,
            BytesUsed(fields, Len(fields), startOffset, endOffset))

calculateCacheLines(fields, totalSize) ==
  [l \in 1..CeilDiv(totalSize, CACHE_LINE_SIZE) |->
     CacheLineAt(fields, l - 1, NumMul(l - 1, CACHE_LINE_SIZE),
       Min(NumSub(NumAdd(NumMul(l - 1, CACHE_LINE_SIZE), CACHE_LINE_SIZE), 1),
           NumSub(totalSize, 1)))]

\* The FieldInfo of one field, from its type's size and alignment, its offset
\* and the cache lines of its first and last byte.
FieldInfoAt(field, typeInfo, offset, paddingAfter, cacheLineStart, cacheLineEnd) ==
  [name |-> field.name,
   typeName |-> field.typeName,
   offset |-> offset,
   size |-> typeInfo.size,
   alignment |-> typeInfo.alignment,
   lineNumber |-> field.lineNumber,
   paddingAfter |-> paddingAfter,
   cacheLineStart |-> cacheLineStart,
   cacheLineEnd |-> cacheLineEnd,
   crossesCacheLine |-> cacheLineStart # cacheLineEnd]

\* The body of the map with the cache line of the last byte taken from the
\* offset alone.
FieldInfoOfFirstByte(fields, idx, layout, typeInfo) ==
  FieldInfoAt(fields[idx], typeInfo, layout.fieldOffsets[idx],
    IF idx < Len(fields)
    THEN NumSub(layout.fieldOffsets[idx + 1],
                NumAdd(layout.fieldOffsets[idx], typeInfo.size))
    ELSE layout.paddings[Len(fields) + 1],
    layout.fieldOffsets[idx] \div CACHE_LINE_SIZE,
    layout.fieldOffsets[idx] \div CACHE_LINE_SIZE)

\* The body of fields.map((field, idx) => ...) in calculateStructLayout.
FieldInfoOf(fields, idx, layout, typeInfo) ==
  FieldInfoAt(fields[idx], typeInfo, layout.fieldOffsets[idx],
    IF idx < Len(fields)
    THEN NumSub(layout.fieldOffsets[idx + 1],
                NumAdd(layout.fieldOffsets[idx], typeInfo.size))
    ELSE layout.paddings[Len(fields) + 1],
    layout.fieldOffsets[idx] \div CACHE_LINE_SIZE,
    NumSub(NumAdd(layout.fieldOffsets[idx], typeInfo.size), 1) \div CACHE_LINE_SIZE)

\* layout.paddings.reduce((sum, p) => sum + p, 0) over the first n paddings.
RECURSIVE SumPaddings(_, _)
SumPaddings(paddings, n) ==
  IF n = 0 THEN 0 ELSE NumAdd(SumPaddings(paddings, n - 1), paddings[n])

\* The names of the fields among the first n that cross a cache line.
RECURSIVE HotFields(_, _)
HotFields(fieldInfos, n) ==
  IF n = 0 THEN << >>
  ELSE IF fieldInfos[n].crossesCacheLine
    THEN Append(HotFields(fieldInfos, n - 1), fieldInfos[n].name)
    ELSE HotFields(fieldInfos, n - 1)

\* The StructInfo calculateStructLayout returns for a struct with fields.
StructInfoOf(name, startLine, endLine, layout, fieldInfos) ==
  [name |-> name,
   fields |-> fieldInfos,
   totalSize |-> layout.size,
   totalPadding |-> SumPaddings(layout.paddings, Len(layout.paddings)),
   lineNumber |-> startLine,
   endLineNumber |-> endLine,
   alignment |-> layout.alignment,
   cacheLines |-> calculateCacheLines(fieldInfos, layout.size),
   cacheLinesCrossed |-> CeilDiv(layout.size, CACHE_LINE_SIZE),
   hotFields |-> HotFields(fieldInfos, Len(fieldInfos))]

\* calculateStructLayout once the layout of the field list is known.
StructLayoutWith(calc, name, fields, startLine, endLine, layout) ==
  StructInfoOf(name, startLine, endLine, layout,
    [idx \in 1..Len(fields) |->
       FieldInfoOf(fields, idx, layout, getTypeInfo(calc, fields[idx].typeName, {}))])

calculateStructLayout(calc, name, fields, startLine, endLine) ==
  IF Len(fields) = 0
  THEN [name |-> name, fields |-> << >>, totalSize |-> 0, totalPadding |-> 0,
        lineNumber |-> startLine, endLineNumber |-> endLine, alignment |-> 1,
        cacheLines |-> << >>, cacheLinesCrossed |-> 0, hotFields |-> << >>]
  ELSE StructLayoutWith(calc, name, fields, startLine, endLine,
         calculateStructSize(calc, DropLine(fields), {}))

\* A struct declaration at line j whose body is `body`: its layout.
StructAt(calc, lines, j, body) ==
  calculateStructLayout(calc, lines[j].names[1], body.fields, j - 1, body.stop - 1)

\* Second pass from line j on: the layout of every struct of the content,
\* in order; next is the line after the struct that starts at line j.
RECURSIVE ParseFrom(_, _, _, _)
ParseStructAt(calc, lines, j, structs, body) ==
  ParseFrom(calc, lines, body.stop + 1, Append(structs, StructAt(calc, lines, j, body)))

ParseFrom(calc, lines, j, structs) ==
  IF j > Len(lines) THEN structs
  ELSE IF lines[j].kind = "struct"
    THEN ParseStructAt(calc, lines, j, structs, ScanBody(lines, j + 1, << >>))
    ELSE ParseFrom(calc, lines, j + 1, structs)

\* parseStructs once the first pass has filled the registry.
ParsedWith(registered, content) ==
  [calculator |-> registered,
   structs    |-> ParseFrom(registered, content, 1, << >>)]

\* parseStructs(content): the calculator it leaves and the structs it returns.
parseStructs(calc, content) ==
  ParsedWith(registerStructDefinitions(clearStructRegistry(calc), content, 1), content)

\* --------------------------------------------------------- StructOptimizer
\* A comparator that never answers 0: fields equal in both keys are told to
\* swap.
CompareNeverEqual(a, b) ==
  IF a.alignment # b.alignment
  THEN NumSub(b.alignment, a.alignment)
  ELSE IF a.size > b.size THEN -1 ELSE 1

\* The comparator of the sort: negative when a goes first, positive when b
\* goes first, 0 when the two keep their order.
Compare(a, b) ==
  IF a.alignment # b.alignment
  THEN NumSub(b.alignment, a.alignment)
  ELSE NumSub(b.size, a.size)

\* Array.prototype.sort is stable: x is put before the first field that the
\* comparator orders after it.
RECURSIVE InsertPoint(_, _, _)
\* An insertion that is not stable: x goes before the fields equal to it.
InsertPointBeforeEqual(sorted, x, k) ==
  IF k > Len(sorted) THEN k
  ELSE IF Compare(sorted[k], x) >= 0 THEN k
  ELSE InsertPoint(sorted, x, k + 1)

InsertPoint(sorted, x, k) ==
  IF k > Len(sorted) THEN k
  ELSE IF Compare(sorted[k], x) > 0 THEN k
  ELSE InsertPoint(sorted, x, k + 1)

\* An insertion that overwrites the field at position k.
InsertAtReplacing(sorted, k, x) ==
  SubSeq(sorted, 1, k - 1) \o << x >> \o SubSeq(sorted, k + 1, Len(sorted))

InsertAt(sorted, k, x) ==
  SubSeq(sorted, 1, k - 1) \o << x >> \o SubSeq(sorted, k, Len(sorted))

InsertSorted(sorted, x) == InsertAt(sorted, InsertPoint(sorted, x, 1), x)

\* [...struct.fields].sort(...) over the first n fields.
RECURSIVE SortFields(_, _)
SortFields(fields, n) ==
  IF n = 0 THEN << >>
  ELSE InsertSorted(SortFields(fields, n - 1), fields[n])

\* sortedFields.map(f => ({ typeName: f.typeName }))
TypeNamesOf(fields) == [n \in 1..Len(fields) |-> [typeName |-> fields[n].typeName]]

\* sortedFields.map(f => f.name)
NamesOf(fields) == [n \in 1..Len(fields) |-> fields[n].name]

\* A result with the subtraction the wrong way round.
OptimizationResultNegated(originalSize, sortedFields, optimizedLayout) ==
  [originalSize    |-> originalSize,
   optimizedSize   |-> optimizedLayout.size,
   bytesSaved      |-> NumSub(optimizedLayout.size, originalSize),
   reorderedFields |-> NamesOf(sortedFields)]

OptimizationResult(originalSize, sortedFields, optimizedLayout) ==
  [originalSize    |-> originalSize,
   optimizedSize   |-> optimizedLayout.size,
   bytesSaved      |-> NumSub(originalSize, optimizedLayout.size),
   reorderedFields |-> NamesOf(sortedFields)]

OptimizeSorted(calc, struct, sortedFields) ==
  OptimizationResult(struct.totalSize, sortedFields,
    calculateStructSize(calc, TypeNamesOf(sortedFields), {}))

optimizeStruct(calc, struct) ==
  IF Len(struct.fields) = 0
  THEN [originalSize |-> 0, optimizedSize |-> 0, bytesSaved |-> 0,
        reorderedFields |-> << >>]
  ELSE OptimizeSorted(calc, struct, SortFields(struct.fields, Len(struct.fields)))

\* lines[i] of the code, i counted from 0; past the end it is undefined,
\* which join('\n') writes as an empty line.
LineAt(lines, i) == IF i + 1 \in 1..Len(lines) THEN lines[i + 1] ELSE BlankLine

\* struct.fields.find(f => f.name === fieldName): the first field of that
\* name, << >> when there is none.
RECURSIVE Find(_, _, _)
Find(fields, fieldName, i) ==
  IF i > Len(fields) THEN << >>
  ELSE IF fields[i].name = fieldName THEN << fields[i] >>
  ELSE Find(fields, fieldName, i + 1)

FoundLine(lines, found) ==
  IF found = << >> THEN << >> ELSE << LineAt(lines, found[1].lineNumber) >>

\* The loop over reorderedFields: the source line of each field found.
RECURSIVE FieldLinesInOrder(_, _, _, _)
FieldLinesInOrder(lines, struct, reorderedFields, k) ==
  IF k = 0 THEN << >>
  ELSE FieldLinesInOrder(lines, struct, reorderedFields, k - 1)
       \o FoundLine(lines, Find(struct.fields, reorderedFields[k], 1))

\* StructOptimizer.generateOptimizedCode(originalCode, struct, optimization)
generateOptimizedCode(lines, struct, optimization) ==
  SubSeq(lines, 1, struct.lineNumber)
  \o << LineAt(lines, struct.lineNumber) >>
  \o FieldLinesInOrder(lines, struct, optimization.reorderedFields,
                       Len(optimization.reorderedFields))
  \o << LineAt(lines, struct.endLineNumber) >>
  \o SubSeq(lines, struct.endLineNumber + 2, Len(lines))

\* ------------------------------------------------------------------- state
VARIABLES
  content,         \* the document handed to parseStructs, as its lines
  arch,            \* MemoryCalculator.arch
  structRegistry,  \* MemoryCalculator.structRegistry
  structs,         \* the StructInfo[] the last parseStructs returned
  query,           \* the arguments of the getTypeInfo call under test: [typeName, seen]
  typeInfo,        \* what that call returned: << >> before it, << [size, alignment] >> after
  optimization,    \* the last optimizeStruct call: << >> before it, then
                   \* << [calculator, struct, result] >>: the calculator it used,
                   \* the StructInfo it was given and the OptimizationResult
  calls,           \* the calls made so far on the objects of one session, in
                   \* order: [op, arch, content, typeName, fields, index]
  analysis,        \* analyzeWorkspaceCommand: [pc, goFiles, filesToProcess, index,
                   \* results]: where it stands, how many files findFiles gave,
                   \* how many it will look at, the loop's position, and results
  decoration       \* the debounced decoration update: [active, timers,
                   \* decorationDebounceTimer, nextId, sinceEvent, events, updates]

vars == << content, arch, structRegistry, structs, query, typeInfo, optimization, calls,
          analysis, decoration >>

\* The calculator shared by the parser and its callers.
Calc == [arch |-> arch, structRegistry |-> structRegistry]

\* ------------------------------------------------------------------ inputs
\* A count the array guard clamps on its own (it exceeds MAX_SAFE_INTEGER / 8).
HugeCount == MAX_SAFE_INTEGER

FieldNames == << "a", "b", "c", "d", "e", "f" >>

\* Field types of the struct S under analysis.
FieldTypes ==
  { Named("byte"), Named("string"),
    ArrayOf(2, Named("byte")), ArrayOf(HugeCount, Named("byte")),
    Named("A"), Named("B") }

FieldLists == UNION { [1..n -> FieldTypes] : n \in 0..MaxFields }

Field(name, typeName) == [name |-> name, typeName |-> typeName]

\* type <name> struct { <one line per field> }
StructLines(name, fields) ==
  << StructLine(name) >>
  \o [n \in 1..Len(fields) |-> FieldLine(<< fields[n].name >>, fields[n].typeName)]
  \o << CloseLine >>

\* The structs declared after S in every document: A holds an array the
\* guard clamps, B is an ordinary nested struct.
CompanionLines ==
  StructLines("A", << Field("h", ArrayOf(HugeCount, Named("byte"))),
                      Field("n", Named("int64")) >>)
  \o << BlankLine >>
  \o StructLines("B", << Field("id", Named("uint64")), Field("ok", Named("bool")) >>)

Document(types) ==
  StructLines("S", [n \in 1..Len(types) |-> Field(FieldNames[n], types[n])])
  \o << BlankLine >> \o CompanionLines

\* Documents that exercise the other line shapes: an embedded struct and an
\* embedded pointer, several names on one line, text no expression matches,
\* and a struct whose closing brace is missing.
EmbeddedDocument ==
  StructLines("Base", << Field("ID", Named("uint64")), Field("CreatedAt", Named("int64")) >>)
  \o << StructLine("User"), EmbeddedLine(Named("Base")),
        EmbeddedLine(PtrTo(Named("Base"))),
        FieldLine(<< "Name" >>, Named("string")),
        FieldLine(<< "Active" >>, Named("bool")), CloseLine >>

MultiNameDocument ==
  << BlankLine, StructLine("Point"), BlankLine,
     FieldLine(<< "X", "Y" >>, Named("float64")), OpaqueLine,
     FieldLine(<< "Tag" >>, Named("uint8")), CloseLine, OpaqueLine >>

UnclosedDocument ==
  << StructLine("Open"), FieldLine(<< "n" >>, Named("int32")),
     StructLine("Inner"), FieldLine(<< "m" >>, Named("int16")), CloseLine >>

\* examples/demonstration.go: UserProfile.
UserProfileDocument ==
  StructLines("UserProfile",
    << Field("Active", Named("bool")), Field("UserID", Named("uint64")),
       Field("Name", Named("string")), Field("Age", Named("uint8")),
       Field("Balance", Named("float64")) >>)

\* Structs that contain themselves or each other, by value and by pointer,
\* and a struct T that holds one of each.
CyclicDocument ==
  StructLines("Node", << Field("v", Named("int64")), Field("next", Named("Node")) >>)
  \o StructLines("P", << Field("q", Named("Q")) >>)
  \o StructLines("Q", << Field("p", Named("P")), Field("x", Named("byte")) >>)
  \o StructLines("F", << Field("next", PtrTo(Named("G"))) >>)
  \o StructLines("G", << Field("prev", PtrTo(Named("F"))), Field("ok", Named("bool")) >>)
  \o StructLines("T", << Field("n", Named("Node")), Field("q", Named("Q")),
                         Field("g", Named("G")) >>)

\* A struct without fields, and fields of no bytes inside another struct.
EmptyDocument ==
  StructLines("E", << >>)
  \o StructLines("Holder", << Field("e", Named("E")), Field("n", Named("int64")),
                              Field("z", ArrayOf(0, Named("int32"))),
                              Field("tail", Named("E")) >>)

\* Types of 60 bytes and types of 8 bytes with every alignment.
SixtyByteTypes ==
  { ArrayOf(60, Named("byte")), ArrayOf(30, Named("int16")), ArrayOf(15, Named("int32")) }

EightByteTypes ==
  { ArrayOf(8, Named("byte")), ArrayOf(4, Named("uint16")), ArrayOf(2, Named("int32")),
    Named("int64"), Named("float64"), Named("complex64"), Named("B") }

\* A struct whose first field has 60 bytes and whose second has 8.
CacheLineDocument(first, second) ==
  StructLines("Padded", << Field("data", first), Field("counter", second) >>)
  \o StructLines("B", << Field("id", Named("uint64")) >>)

Contents ==
  { Document(types) : types \in FieldLists }
  \cup { EmbeddedDocument, MultiNameDocument, UnclosedDocument }
  \cup { UserProfileDocument, CyclicDocument, EmptyDocument }
  \cup { CacheLineDocument(first, second) :
            first \in SixtyByteTypes, second \in EightByteTypes }

\* Struct definitions for the resolver: E is empty, A and B contain each
\* other by value, C holds A twice, L contains itself, and one struct takes
\* the name of a built-in type.
RegistryDefs ==
  (Named("E") :> << >>)
  @@ (Named("A") :> << Field("b", Named("B")) >>)
  @@ (Named("B") :> << Field("a", Named("A")), Field("x", Named("byte")) >>)
  @@ (Named("C") :> << Field("x", Named("A")), Field("y", Named("A")) >>)
  @@ (Named("L") :> << Field("v", Named("int64")), Field("next", Named("L")) >>)
  @@ (Named("int") :> << Field("x", Named("byte")) >>)

\* F and G point at each other, R holds an array of A.
PointerDefs ==
  (Named("F") :> << Field("next", PtrTo(Named("G"))) >>)
  @@ (Named("G") :> << Field("prev", PtrTo(Named("F"))) >>)
  @@ (Named("R") :> << Field("items", ArrayOf(3, Named("A"))),
                       Field("n", Named("byte")) >>)

\* Every registry registerStruct builds from those definitions.
Registries ==
  { [t \in names |-> RegistryDefs[t]] : names \in SUBSET (DOMAIN RegistryDefs) }
  \cup { RegistryDefs @@ PointerDefs }

\* Element counts around the two thresholds of the array guard.
Counts ==
  { 0, 1, 3,
    MAX_SAFE_INTEGER \div 24, MAX_SAFE_INTEGER \div 24 + 1,
    MAX_SAFE_INTEGER \div 16, MAX_SAFE_INTEGER \div 16 + 1,
    MAX_SAFE_INTEGER \div 8, MAX_SAFE_INTEGER \div 8 + 1,
    MAX_SAFE_INTEGER, MAX_SAFE_INTEGER + 1 }

ElemTypes ==
  { Named("byte"), Named("string"), PtrTo(Named("A")), Named("E"), Named("A"),
    ArrayOf(3, Named("int64")), Named("X") }

TypeNames ==
  BuiltinNames
  \cup DOMAIN RegistryDefs
  \cup DOMAIN PointerDefs
  \cup { Named("interface{}"), Named("any"), Named("X"), Named("Int"),
         PtrTo(Named("int")), PtrTo(Named("A")), SliceOf(Named("byte")),
         SliceOf(Named("A")), MapOf(Named("string"), Named("A")),
         MapOf(Named("string"), ArrayOf(3, Named("int64"))),
         ChanOf(Named("int")), << Sym("chan") >>, << Sym("map") >>,
         ArrayOfConst("N", Named("int64")),
         ArrayOfConst("N", ArrayOf(3, Named("int64"))),
         << Sym("["), Digits(3), Sym("]") >>, << >> }
  \cup { ArrayOf(c, t) : c \in Counts, t \in ElemTypes }

\* seen holds names of registered structs: the resolution path so far.
SeenSets == { {}, {Named("A")}, {Named("B"), Named("C")}, {Named("L"), Named("E")} }

\* ----------------------------------------------------------------- actions
\* new GoParser(architecture) for the document under analysis.
Init ==
  /\ content \in Contents
  /\ arch \in Architectures
  /\ structRegistry = << >>
  /\ structs = << >>
  /\ query = [typeName |-> << >>, seen |-> {}]
  /\ typeInfo = << >>
  /\ optimization = << >>
  /\ calls = << >>
  /\ analysis = << >>
  /\ decoration = << >>

\* A calculator of any architecture and registry, and the arguments of the
\* getTypeInfo call under test.
InitTypes ==
  /\ content = << >>
  /\ arch \in Architectures
  /\ structRegistry \in Registries
  /\ structs = << >>
  /\ query \in [typeName : TypeNames, seen : SeenSets]
  /\ typeInfo = << >>
  /\ optimization = << >>
  /\ calls = << >>
  /\ analysis = << >>
  /\ decoration = << >>

\* GoParser.setArchitecture / MemoryCalculator.setArchitecture
SetArchitecture(a) ==
  /\ arch' = a
  /\ UNCHANGED << content, structRegistry, structs, query, typeInfo, optimization, calls, analysis, decoration >>

\* GoParser.parseStructs(content)
ParseStructsReturns(result) ==
  /\ structRegistry' = result.calculator.structRegistry
  /\ structs' = result.structs
  /\ UNCHANGED << content, arch, query, typeInfo, optimization, calls, analysis, decoration >>

ParseStructs == ParseStructsReturns(parseStructs(Calc, content))

\* optimizeStructCommand with the cursor inside the i-th struct of the
\* document: the document is parsed and that struct is optimized at once.
OptimizeAt(result, i) ==
  /\ structRegistry' = result.calculator.structRegistry
  /\ structs' = result.structs
  /\ optimization' = << [calculator |-> result.calculator,
                         struct |-> result.structs[i],
                         result |-> optimizeStruct(result.calculator, result.structs[i])] >>
  /\ UNCHANGED << content, arch, query, typeInfo, calls, analysis, decoration >>

OptimizeParsed(result) == \E i \in 1..Len(result.structs) : OptimizeAt(result, i)

optimizeStructCommand == OptimizeParsed(parseStructs(Calc, content))

\* MemoryCalculator.getTypeInfo(query.typeName, query.seen)
GetTypeInfo ==
  /\ typeInfo' = << getTypeInfo(Calc, query.typeName, query.seen) >>
  /\ UNCHANGED << content, arch, structRegistry, structs, query, optimization, calls, analysis, decoration >>

Next ==
  \/ \E a \in Architectures : SetArchitecture(a)
  \/ ParseStructs

Spec == Init /\ [][Next]_vars

NextTypes == GetTypeInfo

SpecTypes == InitTypes /\ [][NextTypes]_vars

\* The optimize command on every document and architecture.
NextOptimize == optimizeStructCommand

SpecOptimize == Init /\ [][NextOptimize]_vars

\* ------------------------------------------------------------ one session
\* One GoParser, its calculator and one StructOptimizer over several calls:
\* documents are parsed one after another, the architecture is switched, and
\* a StructInfo of the last parseStructs is handed to optimizeStruct.
\* A session makes at most MaxCalls calls.
MaxCalls == 3

Call(op, a, lines, typeName, fields, index) ==
  [op |-> op, arch |-> a, content |-> lines, typeName |-> typeName,
   fields |-> fields, index |-> index]

\* S alone: its fields name A and B, which this document does not declare.
LoneDocument ==
  StructLines("S", << Field("a", Named("A")), Field("b", Named("B")),
                      Field("p", PtrTo(Named("B"))) >>)

\* Two structs that hold each other by value.
MutualDocument ==
  StructLines("P", << Field("q", Named("Q")) >>)
  \o StructLines("Q", << Field("p", Named("P")), Field("x", Named("byte")) >>)

SessionContents ==
  { LoneDocument, Document(<< Named("A"), Named("B") >>),
    EmbeddedDocument, EmptyDocument, MutualDocument }

InitSession ==
  /\ content = << >>
  /\ arch \in Architectures
  /\ structRegistry = << >>
  /\ structs = << >>
  /\ query = [typeName |-> << >>, seen |-> {}]
  /\ typeInfo = << >>
  /\ optimization = << >>
  /\ calls = << Call("new GoParser", arch, << >>, << >>, << >>, 0) >>
  /\ analysis = << >>
  /\ decoration = << >>

\* GoParser.setArchitecture(a)
SwitchArchitecture(a) ==
  /\ Len(calls) <= MaxCalls
  /\ arch' = a
  /\ calls' = Append(calls, Call("setArchitecture", a, << >>, << >>, << >>, 0))
  /\ UNCHANGED << content, structRegistry, structs, query, typeInfo, optimization, analysis, decoration >>

\* GoParser.parseStructs(c)
ParseContentReturns(c, result) ==
  /\ content' = c
  /\ structRegistry' = result.calculator.structRegistry
  /\ structs' = result.structs
  /\ calls' = Append(calls, Call("parseStructs", "", c, << >>, << >>, 0))
  /\ UNCHANGED << arch, query, typeInfo, optimization, analysis, decoration >>

ParseContent(c) ==
  /\ Len(calls) <= MaxCalls
  /\ ParseContentReturns(c, parseStructs(Calc, c))

\* StructOptimizer.optimizeStruct(structs[i]) with the calculator as it is now.
OptimizeStruct(i) ==
  /\ Len(calls) <= MaxCalls
  /\ i \in 1..Len(structs)
  /\ optimization' = << [calculator |-> Calc, struct |-> structs[i],
                         result |-> optimizeStruct(Calc, structs[i])] >>
  /\ calls' = Append(calls, Call("optimizeStruct", "", << >>, << >>, << >>, i))
  /\ UNCHANGED << content, arch, structRegistry, structs, query, typeInfo, analysis, decoration >>

NextSession ==
  \/ \E a \in Architectures : SwitchArchitecture(a)
  \/ \E c \in SessionContents : ParseContent(c)
  \/ \E i \in 1..2 : OptimizeStruct(i)

SpecSession == InitSession /\ [][NextSession]_vars

\* --------------------------------------------------- one MemoryCalculator
\* One MemoryCalculator over several calls of its public methods.

\* A setArchitecture that leaves the calculator as it is.
setArchitectureIgnored(calc, a) == calc

\* MemoryCalculator.setArchitecture(a)
setArchitecture(calc, a) == [calc EXCEPT !.arch = a]

\* The definitions handed to registerStruct: A with a pointer, A holding B,
\* B with one int, B holding A.
CalculatorDefs ==
  { [name |-> Named("A"), fields |-> << Field("p", PtrTo(Named("byte"))),
                                        Field("n", Named("int32")) >>],
    [name |-> Named("A"), fields |-> << Field("b", Named("B")) >>],
    [name |-> Named("B"), fields |-> << Field("x", Named("int")) >>],
    [name |-> Named("B"), fields |-> << Field("a", Named("A")),
                                        Field("c", Named("byte")) >>] }

InitCalculator ==
  /\ content = << >>
  /\ arch \in Architectures
  /\ structRegistry = << >>
  /\ structs = << >>
  /\ query = [typeName |-> << >>, seen |-> {}]
  /\ typeInfo = << >>
  /\ optimization = << >>
  /\ calls = << Call("new MemoryCalculator", arch, << >>, << >>, << >>, 0) >>
  /\ analysis = << >>
  /\ decoration = << >>

CalculatorBecomes(calc, call) ==
  /\ Len(calls) <= MaxCalls
  /\ arch' = calc.arch
  /\ structRegistry' = calc.structRegistry
  /\ calls' = Append(calls, call)
  /\ UNCHANGED << content, structs, query, typeInfo, optimization, analysis, decoration >>

CalculatorSetArchitecture(a) ==
  CalculatorBecomes(setArchitecture(Calc, a),
                    Call("setArchitecture", a, << >>, << >>, << >>, 0))

RegisterStruct(def) ==
  CalculatorBecomes(registerStruct(Calc, def.name, def.fields),
                    Call("registerStruct", "", << >>, def.name, def.fields, 0))

ClearStructRegistry ==
  CalculatorBecomes(clearStructRegistry(Calc),
                    Call("clearStructRegistry", "", << >>, << >>, << >>, 0))

CalculatorReturns(result, call) ==
  /\ Len(calls) <= MaxCalls
  /\ typeInfo' = << result >>
  /\ calls' = Append(calls, call)
  /\ UNCHANGED << content, arch, structRegistry, structs, query, optimization, analysis, decoration >>

\* MemoryCalculator.getTypeInfo(t), seen left to its default
QueryTypeInfo(t) ==
  CalculatorReturns(getTypeInfo(Calc, t, {}),
                    Call("getTypeInfo", "", << >>, t, << >>, 0))

\* MemoryCalculator.calculateStructSize(fields), seen left to its default
CalculateStructSize(fields) ==
  CalculatorReturns(calculateStructSize(Calc, fields, {}),
                    Call("calculateStructSize", "", << >>, << >>, fields, 0))

NextCalculator ==
  \/ \E a \in Architectures : CalculatorSetArchitecture(a)
  \/ \E def \in CalculatorDefs : RegisterStruct(def)
  \/ ClearStructRegistry
  \/ \E t \in { Named("A"), Named("uintptr"), ArrayOf(2, Named("B")) } :
       QueryTypeInfo(t)
  \/ \E fields \in { << Field("a", Named("A")), Field("s", Named("string")) >> } :
       CalculateStructSize(fields)

SpecCalculator == InitCalculator /\ [][NextCalculator]_vars

\* ------------------------------------------------------- rewriting a struct
\* generateOptimizedCode on the text of a document, one of its structs and
\* that struct's OptimizationResult.

\* A struct with two names on one line between two small fields, lines
\* before and after it; reordering saves 8 bytes.
PairDocument ==
  << OpaqueLine, StructLine("Pair"), FieldLine(<< "a" >>, Named("bool")),
     FieldLine(<< "X", "Y" >>, Named("float64")), BlankLine,
     FieldLine(<< "b" >>, Named("bool")), CloseLine, BlankLine >>
  \o StructLines("Next", << Field("n", Named("int64")) >>)

InitRewrite ==
  /\ content \in
       { Document(types) : types \in { l \in FieldLists : Len(l) <= 2 } }
       \cup { EmbeddedDocument, MultiNameDocument, UnclosedDocument,
              UserProfileDocument, EmptyDocument, PairDocument }
  /\ arch \in Architectures
  /\ structRegistry = << >>
  /\ structs = << >>
  /\ query = [typeName |-> << >>, seen |-> {}]
  /\ typeInfo = << >>
  /\ optimization = << >>
  /\ calls = << >>
  /\ analysis = << >>
  /\ decoration = << >>

\* The struct, its OptimizationResult and the text generated from them.
Rewritten(calc, struct, result) ==
  [calculator |-> calc, struct |-> struct, result |-> result,
   code |-> generateOptimizedCode(content, struct, result)]

RewriteAt(parsed, i) ==
  /\ structRegistry' = parsed.calculator.structRegistry
  /\ structs' = parsed.structs
  /\ optimization' = << Rewritten(parsed.calculator, parsed.structs[i],
                                  optimizeStruct(parsed.calculator, parsed.structs[i])) >>
  /\ UNCHANGED << content, arch, query, typeInfo, calls, analysis, decoration >>

RewriteParsed(parsed) == \E i \in 1..Len(parsed.structs) : RewriteAt(parsed, i)

GenerateOptimizedCode == RewriteParsed(parseStructs(Calc, content))

NextRewrite == GenerateOptimizedCode

SpecRewrite == InitRewrite /\ [][NextRewrite]_vars

\* ------------------------------------------------- analyzeWorkspaceCommand
MAX_FILES == 1000
MAX_RESULTS == 500

\* A file of the workspace: it holds a document, or it cannot be taken up
\* (it has more than MAX_FILE_SIZE bytes, or reading it throws).
GoFile(c) == [readable |-> TRUE, content |-> c]
NoFile == [readable |-> FALSE, content |-> << >>]

\* What findFiles gives: `size` files, the first `prefix` of them alike.
Workspace(size, prefix, first, then) ==
  [size |-> size, prefix |-> prefix, first |-> first, then |-> then]

\* goFiles[i], i counted from 0
FileAt(workspace, i) == IF i < workspace.prefix THEN workspace.first ELSE workspace.then

\* Two small files; more files than MAX_FILES, with structs to report in the
\* last ones only; and one struct to report per file until results is one
\* short of MAX_RESULTS, then files with several.
Workspaces ==
  { Workspace(2, 1, GoFile(EmptyDocument), NoFile),
    Workspace(MAX_FILES + 2, MAX_FILES - 1, NoFile, GoFile(UserProfileDocument)),
    Workspace(MAX_RESULTS + 2, MAX_RESULTS - 1, GoFile(UserProfileDocument),
              GoFile(CyclicDocument)) }

InitAnalysis ==
  /\ content = << >>
  /\ arch \in Architectures
  /\ structRegistry = << >>
  /\ structs = << >>
  /\ query = [typeName |-> << >>, seen |-> {}]
  /\ typeInfo = << >>
  /\ optimization = << >>
  /\ calls = << >>
  /\ analysis = [pc |-> "findFiles", goFiles |-> Workspace(0, 0, NoFile, NoFile),
                 filesToProcess |-> 0, index |-> 0, results |-> << >>]
  /\ decoration = << >>

\* findFiles returns; filesToProcess = goFiles.slice(0, MAX_FILES)
FindFiles(workspace) ==
  /\ analysis.pc = "findFiles"
  /\ analysis' = [analysis EXCEPT !.pc = "files", !.goFiles = workspace,
                                  !.filesToProcess = Min(workspace.size, MAX_FILES)]
  /\ UNCHANGED << content, arch, structRegistry, structs, query, typeInfo,
                  optimization, calls, decoration >>

\* The entry of results for a struct and its OptimizationResult.
ResultOf(struct, result) ==
  [structName |-> struct.name, totalSize |-> struct.totalSize,
   totalPadding |-> struct.totalPadding, bytesSaveable |-> result.bytesSaved,
   cacheLinesCrossed |-> struct.cacheLinesCrossed, hotFields |-> struct.hotFields]

\* Only structs with issues are included: bytes to save, more than 10 %
\* padding, or a field that crosses a cache line.
HasIssues(struct, result) ==
  \/ result.bytesSaved > 0
  \/ struct.totalSize > 0 /\ struct.totalPadding * 10 > struct.totalSize
  \/ Len(struct.hotFields) > 0

PushIfIssues(results, struct, result) ==
  IF HasIssues(struct, result) THEN Append(results, ResultOf(struct, result))
  ELSE results

\* The loop over the structs of one file, after the first k.
RECURSIVE PushStructs(_, _, _, _)
PushStructs(calc, fileStructs, k, results) ==
  IF k = 0 THEN results
  ELSE PushIfIssues(PushStructs(calc, fileStructs, k - 1, results),
                    fileStructs[k], optimizeStruct(calc, fileStructs[k]))

\* One turn of the loop over filesToProcess in which the file is read.
FileParsed(c, parsed) ==
  /\ content' = c
  /\ structRegistry' = parsed.calculator.structRegistry
  /\ structs' = parsed.structs
  /\ analysis' = [analysis EXCEPT !.index = @ + 1,
                    !.results = PushStructs(parsed.calculator, parsed.structs,
                                            Len(parsed.structs), @)]
  /\ UNCHANGED << arch, query, typeInfo, optimization, calls, decoration >>

InLoop ==
  /\ analysis.pc = "files"
  /\ analysis.index < analysis.filesToProcess
  /\ Len(analysis.results) < MAX_RESULTS

ThisFile == FileAt(analysis.goFiles, analysis.index)

AnalyzeFile ==
  /\ InLoop
  /\ ThisFile.readable
  /\ FileParsed(ThisFile.content, parseStructs(Calc, ThisFile.content))

\* A turn in which the file is larger than MAX_FILE_SIZE, or reading or
\* parsing it throws: nothing is pushed.
SkipFile ==
  /\ InLoop
  /\ ~ ThisFile.readable
  /\ analysis' = [analysis EXCEPT !.index = @ + 1]
  /\ UNCHANGED << content, arch, structRegistry, structs, query, typeInfo,
                  optimization, calls, decoration >>

\* The loop ends: every file was looked at, results is full, or the user
\* cancelled.
LoopEnds ==
  /\ analysis.pc = "files"
  /\ analysis' = [analysis EXCEPT !.pc = "report"]
  /\ UNCHANGED << content, arch, structRegistry, structs, query, typeInfo,
                  optimization, calls, decoration >>

NextAnalysis ==
  \/ \E workspace \in Workspaces : FindFiles(workspace)
  \/ AnalyzeFile
  \/ SkipFile
  \/ LoopEnds

SpecAnalysis == InitAnalysis /\ [][NextAnalysis]_vars

\* -------------------------------------------- debouncedUpdateDecorations
\* The delay handed to setTimeout, in milliseconds.
DebounceDelay == 250

\* Time passes in steps of TickMs milliseconds, and at most MaxEvents change
\* events arrive.
TickMs == 125
MaxEvents == 3

\* The text of the editors whose document is a Go file, a.go and b.go.
TextOf(editor) == IF editor = "a.go" THEN UserProfileDocument ELSE EmbeddedDocument

\* The pending timeouts of the runtime are records [id, editor, age]: the
\* handle setTimeout returned, the editor its callback holds, and the time
\* since it was set.  decorationDebounceTimer is a handle, 0 when undefined.

\* A clearTimeout that leaves the timeout pending.
clearTimeoutIgnored(timers, id) == timers

\* clearTimeout(id)
clearTimeout(timers, id) == { t \in timers : t.id # id }

\* setTimeout(() => updateDecorations(editor, parser), 250)
setTimeout(timers, id, editor) == timers \cup { [id |-> id, editor |-> editor, age |-> 0] }

InitDecoration ==
  /\ content = << >>
  /\ arch \in Architectures
  /\ structRegistry = << >>
  /\ structs = << >>
  /\ query = [typeName |-> << >>, seen |-> {}]
  /\ typeInfo = << >>
  /\ optimization = << >>
  /\ calls = << >>
  /\ analysis = << >>
  /\ decoration = [active |-> TRUE, timers |-> {}, decorationDebounceTimer |-> 0,
                   nextId |-> 1, sinceEvent |-> DebounceDelay,
                   events |-> << >>, updates |-> << >>]

\* onDidChangeTextDocument / onDidChangeActiveTextEditor for a Go editor:
\* debouncedUpdateDecorations(editor, parser)
ChangeEvent(editor) ==
  /\ decoration.active
  /\ Len(decoration.events) < MaxEvents
  /\ decoration' =
       [decoration EXCEPT
          !.timers = setTimeout(IF decoration.decorationDebounceTimer # 0
                                THEN clearTimeout(@, decoration.decorationDebounceTimer)
                                ELSE @,
                                decoration.nextId, editor),
          !.decorationDebounceTimer = decoration.nextId,
          !.nextId = @ + 1,
          !.sinceEvent = 0,
          !.events = Append(@, [editor |-> editor, gap |-> decoration.sinceEvent])]
  /\ UNCHANGED << content, arch, structRegistry, structs, query, typeInfo,
                  optimization, calls, analysis >>

\* TickMs milliseconds pass.
Tick ==
  /\ decoration' =
       [decoration EXCEPT !.timers = { [t EXCEPT !.age = Min(@ + TickMs, DebounceDelay)] : t \in @ },
                          !.sinceEvent = Min(@ + TickMs, DebounceDelay)]
  /\ UNCHANGED << content, arch, structRegistry, structs, query, typeInfo,
                  optimization, calls, analysis >>

\* The callback of a timeout runs, not before its delay has passed:
\* updateDecorations(editor, parser) parses the editor's text.
UpdateDecorations(t, parsed) ==
  /\ content' = TextOf(t.editor)
  /\ structRegistry' = parsed.calculator.structRegistry
  /\ structs' = parsed.structs
  /\ decoration' =
       [decoration EXCEPT
          !.timers = @ \ {t},
          !.updates = Append(@, [editor |-> t.editor,
                                 afterEvent |-> Len(decoration.events),
                                 active |-> decoration.active])]
  /\ UNCHANGED << arch, query, typeInfo, optimization, calls, analysis >>

TimerFires(t) ==
  /\ t \in decoration.timers
  /\ t.age >= DebounceDelay
  /\ UpdateDecorations(t, parseStructs(Calc, TextOf(t.editor)))

\* deactivate(); the listeners are disposed with the extension.
Deactivate ==
  /\ decoration.active
  /\ decoration' =
       [decoration EXCEPT
          !.active = FALSE,
          !.timers = IF decoration.decorationDebounceTimer # 0
                     THEN clearTimeout(@, decoration.decorationDebounceTimer)
                     ELSE @]
  /\ UNCHANGED << content, arch, structRegistry, structs, query, typeInfo,
                  optimization, calls, analysis >>

SomeTimerFires == \E t \in decoration.timers : TimerFires(t)

NextDecoration ==
  \/ \E editor \in { "a.go", "b.go" } : ChangeEvent(editor)
  \/ Tick
  \/ SomeTimerFires
  \/ Deactivate

SpecDecoration == InitDecoration /\ [][NextDecoration]_vars

\* A timeout is due: its callback can run.
TimerDue == \E t \in decoration.timers : t.age >= DebounceDelay

\* Time passes, and the event loop runs the callback of a timeout that is
\* due.  The second condition is WF_vars(SomeTimerFires) with TimerDue
\* written for ENABLED <<SomeTimerFires>>_vars.
SpecDecorationFair ==
  /\ SpecDecoration
  /\ WF_vars(Tick)
  /\ (<>[]TimerDue) => ([]<><<SomeTimerFires>>_vars)

\* ------------------------------------------------------------------ claims
\* Every FieldInfo of every struct the last parseStructs returned.
FieldsOf(n) == structs[n].fields
StructIndexes == 1..Len(structs)

\* C1: in every computed layout each field's offset is a multiple of the
\* alignment getTypeInfo gave for the field's type.
C1_OffsetAligned ==
  \A n \in StructIndexes : \A i \in 1..Len(FieldsOf(n)) :
    /\ FieldsOf(n)[i].alignment >= 1
    /\ FieldsOf(n)[i].offset % FieldsOf(n)[i].alignment = 0

\* C1 witness: a field that had to be moved up to its alignment.
C1_Witness ==
  \E n \in StructIndexes : \E i \in 1..Len(FieldsOf(n)) :
    /\ i < Len(FieldsOf(n))
    /\ FieldsOf(n)[i].paddingAfter > 0
    /\ FieldsOf(n)[i + 1].alignment = 8

\* C2: consecutive fields do not overlap, and the first field is at offset 0.
C2_NoOverlap ==
  \A n \in StructIndexes :
    /\ Len(FieldsOf(n)) > 0 => FieldsOf(n)[1].offset = 0
    /\ \A i \in 1..(Len(FieldsOf(n)) - 1) :
         FieldsOf(n)[i].offset + FieldsOf(n)[i].size <= FieldsOf(n)[i + 1].offset

\* The largest alignment among the first n of the fields, 1 for none.
RECURSIVE MaxAlignment(_, _)
MaxAlignment(fields, n) ==
  IF n = 0 THEN 1 ELSE Max(MaxAlignment(fields, n - 1), fields[n].alignment)

\* C3: the total size is a multiple of the struct's alignment, which is the
\* largest alignment of its fields, and 1 for a struct without fields.
C3_SizeRounded ==
  \A n \in StructIndexes :
    /\ structs[n].alignment = MaxAlignment(FieldsOf(n), Len(FieldsOf(n)))
    /\ structs[n].totalSize % structs[n].alignment = 0

\* C3 witness: a struct whose size was rounded up past its last field.
C3_Witness ==
  \E n \in StructIndexes :
    /\ Len(FieldsOf(n)) > 0
    /\ FieldsOf(n)[Len(FieldsOf(n))].paddingAfter > 0
    /\ structs[n].alignment > 1

\* The exact sum of paddingAfter over the first n of the fields.
RECURSIVE SumPaddingAfter(_, _)
SumPaddingAfter(fields, n) ==
  IF n = 0 THEN 0 ELSE SumPaddingAfter(fields, n - 1) + fields[n].paddingAfter

\* C4: the paddingAfter of the fields add up to totalPadding, and totalSize is
\* the end of the last field plus its paddingAfter.
C4_PaddingSum ==
  \A n \in StructIndexes :
    Len(FieldsOf(n)) > 0 =>
      /\ SumPaddingAfter(FieldsOf(n), Len(FieldsOf(n))) = structs[n].totalPadding
      /\ structs[n].totalSize =
           FieldsOf(n)[Len(FieldsOf(n))].offset + FieldsOf(n)[Len(FieldsOf(n))].size
           + FieldsOf(n)[Len(FieldsOf(n))].paddingAfter

\* C5: paddingAfter is the gap to the next field, for the last field the gap
\* to the end of the struct, and never negative.
C5_PaddingAfter ==
  \A n \in StructIndexes : \A i \in 1..Len(FieldsOf(n)) :
    /\ FieldsOf(n)[i].paddingAfter >= 0
    /\ FieldsOf(n)[i].paddingAfter =
         (IF i < Len(FieldsOf(n)) THEN FieldsOf(n)[i + 1].offset
                                  ELSE structs[n].totalSize)
         - (FieldsOf(n)[i].offset + FieldsOf(n)[i].size)

\* The pointer width of the calculator's architecture.
PointerWidth == IF arch = "386" THEN 4 ELSE 8

Returned == typeInfo # << >>
Result == typeInfo[1]
Info(size, alignment) == [size |-> size, alignment |-> alignment]

\* C6: getTypeInfo follows the table of built-in types on every architecture.
C6_BuiltinTable ==
  Returned =>
    /\ query.typeName \in {Named("bool"), Named("int8"), Named("uint8"), Named("byte")}
         => Result = Info(1, 1)
    /\ query.typeName \in {Named("int16"), Named("uint16")} => Result = Info(2, 2)
    /\ query.typeName \in {Named("int32"), Named("uint32"), Named("float32"), Named("rune")}
         => Result = Info(4, 4)
    /\ query.typeName \in {Named("int64"), Named("uint64"), Named("float64"),
                           Named("complex64")}
         => Result = Info(8, 8)
    /\ query.typeName = Named("complex128") => Result = Info(16, 8)
    /\ query.typeName \in {Named("int"), Named("uint"), Named("uintptr")}
         => Result = Info(PointerWidth, PointerWidth)
    /\ query.typeName \in {PtrTo(Named("int")), PtrTo(Named("A")),
                           SliceOf(Named("byte")), SliceOf(Named("A")),
                           MapOf(Named("string"), Named("A")),
                           MapOf(Named("string"), ArrayOf(3, Named("int64"))),
                           ChanOf(Named("int"))}
         => Result = Info(PointerWidth, PointerWidth)
    /\ query.typeName \in {Named("string"), Named("interface{}"), Named("any")}
         => Result = Info(2 * PointerWidth, PointerWidth)

\* C6 witness: a two-word type resolved on the 32-bit architecture.
C6_Witness ==
  Returned /\ arch = "386" /\ query.typeName = Named("string") /\ Result = Info(8, 4)

\* A type expression none of the branches of getTypeInfo recognises.
Unrecognised(typeName) ==
  /\ typeName \notin BuiltinNames
  /\ ~ (Len(typeName) >= 1 /\ typeName[1].k = "*")
  /\ ~ (Len(typeName) >= 2 /\ typeName[1].k = "[" /\ typeName[2].k = "]")
  /\ ~ (Len(typeName) >= 1 /\ typeName[1].k = "[" /\ ArrayMatches(typeName) # {})
  /\ ~ (Len(typeName) >= 2 /\ typeName[1].k = "map" /\ typeName[2].k = "[")
  /\ ~ (Len(typeName) >= 2 /\ typeName[1].k = "chan" /\ typeName[2].k = " ")
  /\ typeName \notin {Named("interface{}"), Named("any")}
  /\ typeName \notin DOMAIN structRegistry

PowersOfTwo == { Pow2(e) : e \in 0..MantissaBits }

\* C7: getTypeInfo answers every type expression: an alignment that is a power
\* of two and a size >= 0, and the pointer width twice for an expression it
\* does not recognise.
C7_TotalWithFallback ==
  Returned =>
    /\ Result.alignment \in PowersOfTwo
    /\ Result.size >= 0
    /\ Unrecognised(query.typeName) => Result = Info(PointerWidth, PointerWidth)

\* C7 witness: an array whose count is no number falls back to the pointer width.
C7_Witness ==
  /\ Returned
  /\ query.typeName = ArrayOfConst("N", Named("int64"))
  /\ arch = "386"
  /\ Result = Info(4, 4)

\* What getTypeInfo returns for the element type of the array under test.
ElemInfo(t) == getTypeInfo(Calc, t, query.seen)

\* C8 as stated: an array whose product count x element size does not exceed
\* MAX_SAFE_INTEGER has that product as its size and the element's alignment.
C8_ArrayProduct ==
  Returned =>
    \A c \in Counts, t \in ElemTypes :
      (query.typeName = ArrayOf(c, t) /\ c * ElemInfo(t).size <= MAX_SAFE_INTEGER)
        => Result = Info(c * ElemInfo(t).size, ElemInfo(t).alignment)

\* C8 amended: the same for a count of at most MAX_SAFE_INTEGER / 8.
C8_ArrayProductGuarded ==
  Returned =>
    \A c \in Counts, t \in ElemTypes :
      (/\ query.typeName = ArrayOf(c, t)
       /\ c * 8 <= MAX_SAFE_INTEGER
       /\ c * ElemInfo(t).size <= MAX_SAFE_INTEGER)
        => Result = Info(c * ElemInfo(t).size, ElemInfo(t).alignment)

\* C8 witness: three elements of a registered struct.
C8_Witness ==
  /\ Returned
  /\ query.typeName = ArrayOf(3, Named("A"))
  /\ Named("A") \in DOMAIN structRegistry
  /\ Named("A") \notin query.seen
  /\ Result.size = 3 * ElemInfo(Named("A")).size
  /\ Result.size > 3 * PointerWidth

\* C9 as stated: the size of an array is min(count x element size,
\* MAX_SAFE_INTEGER), with the element's alignment.
C9_ClampAtMax ==
  Returned =>
    \A c \in Counts, t \in ElemTypes :
      query.typeName = ArrayOf(c, t)
        => Result = Info(Min(c * ElemInfo(t).size, MAX_SAFE_INTEGER),
                         ElemInfo(t).alignment)

\* C9 amended: the size is MAX_SAFE_INTEGER when the count exceeds
\* MAX_SAFE_INTEGER / 8 or the product exceeds MAX_SAFE_INTEGER, and the exact
\* product otherwise; the alignment is the element's.
C9_ClampAtGuard ==
  Returned =>
    \A c \in Counts, t \in ElemTypes :
      query.typeName = ArrayOf(c, t)
        => /\ Result.alignment = ElemInfo(t).alignment
           /\ Result.size =
                IF c * 8 > MAX_SAFE_INTEGER \/ c * ElemInfo(t).size > MAX_SAFE_INTEGER
                THEN MAX_SAFE_INTEGER
                ELSE c * ElemInfo(t).size

\* C9 witness: an array clamped because of its product, not of its count.
C9_Witness ==
  /\ Returned
  /\ arch = "amd64"
  /\ query.typeName = ArrayOf(MAX_SAFE_INTEGER \div 16 + 1, Named("string"))
  /\ Result = Info(MAX_SAFE_INTEGER, 8)

\* The layout rule on exact integers: x rounded up to a multiple of a.
RoundUp(x, a) == ((x + a - 1) \div a) * a

\* The end of the n-th of the fields laid out one after the other.
RECURSIVE PackedEnd(_, _)
PackedEnd(infos, n) ==
  IF n = 0 THEN 0
  ELSE RoundUp(PackedEnd(infos, n - 1), infos[n].alignment) + infos[n].size

\* Size and alignment of a struct whose fields have these sizes and alignments.
PackedInfo(infos) ==
  Info(RoundUp(PackedEnd(infos, Len(infos)), MaxAlignment(infos, Len(infos))),
       MaxAlignment(infos, Len(infos)))

\* Every field of the registered struct t resolved on the path seen + t.
FieldInfosOn(t, seen) ==
  [i \in 1..Len(structRegistry[t]) |->
     getTypeInfo(Calc, structRegistry[t][i].typeName, seen \cup {t})]

\* C10: a name on the resolution path resolves to the pointer width; a
\* registered struct that is not on it is laid out from its fields, each
\* resolved on the path extended by that struct alone, whatever its sibling
\* fields met.
C10_CyclePerPath ==
  Returned =>
    /\ query.typeName \in query.seen => Result = Info(PointerWidth, PointerWidth)
    /\ (/\ query.typeName \in DOMAIN structRegistry
        /\ query.typeName \notin BuiltinNames
        /\ query.typeName \notin query.seen)
         => Result = PackedInfo(FieldInfosOn(query.typeName, query.seen))

\* C10 witness: C{x A; y A} with A{b B} and B{a A; x byte} registered: both
\* fields of C get the full 16 bytes of A.
C10_Witness ==
  /\ Returned
  /\ arch = "amd64"
  /\ query = [typeName |-> Named("C"), seen |-> {}]
  /\ {Named("A"), Named("B"), Named("C")} \subseteq DOMAIN structRegistry
  /\ Result = Info(32, 8)

\* C11: a field whose type is a struct of the document has the totalSize and
\* the alignment parseStructs reports for that struct.
C11_NestedAsReported ==
  \A n \in StructIndexes, m \in StructIndexes :
    \A i \in 1..Len(FieldsOf(m)) :
      FieldsOf(m)[i].typeName = Named(structs[n].name)
        => /\ FieldsOf(m)[i].size = structs[n].totalSize
           /\ FieldsOf(m)[i].alignment = structs[n].alignment

\* The array levels of a type expression, as the array branch peels them.
RECURSIVE ArrayLevels(_)
ArrayLevels(typeName) ==
  IF /\ Len(typeName) >= 1
     /\ typeName[1].k = "["
     /\ ~ (Len(typeName) >= 2 /\ typeName[2].k = "]")
     /\ ArrayMatches(typeName) # {}
  THEN 1 + ArrayLevels(ArrayMatch(typeName).elemType)
  ELSE 0

\* The array levels of the deepest field type among the first n fields.
RECURSIVE FieldLevels(_, _)
FieldLevels(fields, n) ==
  IF n = 0 THEN 0
  ELSE Max(FieldLevels(fields, n - 1), ArrayLevels(fields[n].typeName))

\* The array levels a resolution path through the structs in `names` can meet.
RECURSIVE RegistryLevels(_)
RegistryLevels(names) ==
  IF names = {} THEN 0
  ELSE FieldLevels(structRegistry[CHOOSE t \in names : TRUE],
                   Len(structRegistry[CHOOSE t \in names : TRUE]))
       + RegistryLevels(names \ {CHOOSE t \in names : TRUE})

\* Registered names plus array nesting, plus one for the call that ends the path.
DepthBound ==
  Cardinality(DOMAIN structRegistry)
  + ArrayLevels(query.typeName) + RegistryLevels(DOMAIN structRegistry) + 1

\* C12: getTypeInfo terminates for every registry: its call stack never gets
\* deeper than the registered names plus the array nesting, and what it
\* returns is a finite size and alignment.
C12_Terminates ==
  /\ CallDepth(Calc, query.typeName, query.seen, DepthBound + 1) <= DepthBound
  /\ Returned => (Result.size \in Nat /\ Result.alignment \in Nat)

\* C12 witness: R holds [3]A, A holds B, B holds A: five calls deep, with F
\* and G that point at each other in the same registry.
C12_Witness ==
  /\ Returned
  /\ query = [typeName |-> Named("R"), seen |-> {}]
  /\ {Named("F"), Named("G")} \subseteq DOMAIN structRegistry
  /\ CallDepth(Calc, query.typeName, query.seen, DepthBound + 1) = 5
  /\ Result.size \in Nat

\* C13: a struct without fields has totalSize 0, alignment 1, totalPadding 0,
\* no fields, no cache lines and cacheLinesCrossed 0; a field whose type is a
\* registered struct without fields (under a name no built-in type has) has
\* size 0 and alignment 1.
C13_EmptyStruct ==
  \A n \in StructIndexes :
    /\ Len(FieldsOf(n)) = 0
         => /\ structs[n].totalSize = 0
            /\ structs[n].alignment = 1
            /\ structs[n].totalPadding = 0
            /\ structs[n].cacheLines = << >>
            /\ structs[n].cacheLinesCrossed = 0
    /\ \A i \in 1..Len(FieldsOf(n)) :
         (/\ FieldsOf(n)[i].typeName \in DOMAIN structRegistry
          /\ FieldsOf(n)[i].typeName \notin BuiltinNames
          /\ structRegistry[FieldsOf(n)[i].typeName] = << >>)
           => (FieldsOf(n)[i].size = 0 /\ FieldsOf(n)[i].alignment = 1)

\* C13 witness: E without fields is parsed, and Holder has fields of type E.
C13_Witness ==
  /\ Len(structs) = 2
  /\ structs[1].name = "E"
  /\ Len(structs[1].fields) = 0
  /\ structs[1].totalSize = 0
  /\ structs[2].name = "Holder"
  /\ structs[2].fields[1].typeName = Named("E")
  /\ structs[2].fields[1].size = 0
  /\ structs[2].fields[4].offset = 8

\* The optimizeStruct call under test.
Optimized == optimization # << >>
OptStruct == optimization[1].struct
OptResult == optimization[1].result
OptCalc == optimization[1].calculator

\* The ways to put n fields in a row.
Orderings(n) ==
  { p \in [1..n -> 1..n] : \A k, l \in 1..n : p[k] = p[l] => k = l }

\* a goes before b in a stable sort by alignment descending, then size
\* descending, when a is declared at index i and b at index j.
GoesBefore(a, i, b, j) ==
  \/ a.alignment > b.alignment
  \/ a.alignment = b.alignment /\ a.size > b.size
  \/ a.alignment = b.alignment /\ a.size = b.size /\ i < j

\* p puts the fields in that order.
IsStableOrder(fields, p) ==
  \A k, l \in 1..Len(fields) :
    k < l => GoesBefore(fields[p[k]], p[k], fields[p[l]], p[l])

\* C14: reorderedFields names the fields sorted by alignment descending, then
\* size descending, fields equal in both in their declared order; for 0 or 1
\* field the order is the declared one and bytesSaved is 0.
C14_StableSort ==
  Optimized =>
    /\ \E p \in Orderings(Len(OptStruct.fields)) :
         /\ IsStableOrder(OptStruct.fields, p)
         /\ OptResult.reorderedFields =
              [k \in 1..Len(OptStruct.fields) |-> OptStruct.fields[p[k]].name]
    /\ Len(OptStruct.fields) <= 1
         => /\ OptResult.reorderedFields = NamesOf(OptStruct.fields)
            /\ OptResult.bytesSaved = 0

\* C14 witness: S{a byte; b string; c byte}: b moves to the front, a stays
\* before c.
C14_Witness ==
  /\ Optimized
  /\ OptStruct.name = "S"
  /\ Len(OptStruct.fields) = 3
  /\ OptStruct.fields[1].typeName = Named("byte")
  /\ OptStruct.fields[3].typeName = Named("byte")
  /\ OptResult.reorderedFields = << "b", "a", "c" >>

\* The size calculateStructSize gives the fields put in the order p.
SizeInOrder(fields, p) ==
  calculateStructSize(OptCalc,
    [k \in 1..Len(fields) |-> [typeName |-> fields[p[k]].typeName]], {}).size

\* Every field's size is a multiple of its alignment, a power of two.
SizesAreAligned(fields) ==
  \A i \in 1..Len(fields) :
    /\ fields[i].alignment \in PowersOfTwo
    /\ fields[i].size % fields[i].alignment = 0

\* C15: when every field's size is a multiple of its alignment and the
\* alignments are powers of two, no order of the fields is laid out smaller
\* than optimizedSize, and bytesSaved >= 0.
C15_Optimal ==
  (Optimized /\ SizesAreAligned(OptStruct.fields)) =>
    /\ \A p \in Orderings(Len(OptStruct.fields)) :
         OptResult.optimizedSize <= SizeInOrder(OptStruct.fields, p)
    /\ OptResult.bytesSaved >= 0

\* How often x occurs in seq.
Count(seq, x) == Cardinality({ i \in 1..Len(seq) : seq[i] = x })

\* C16: reorderedFields holds the names of the struct's fields, each as often
\* as the struct has it: no field is added, dropped or duplicated.
C16_Permutation ==
  Optimized =>
    /\ Len(OptResult.reorderedFields) = Len(OptStruct.fields)
    /\ \A i \in 1..Len(OptStruct.fields) :
         Count(OptResult.reorderedFields, OptStruct.fields[i].name)
           = Count(NamesOf(OptStruct.fields), OptStruct.fields[i].name)
    /\ \A k \in 1..Len(OptResult.reorderedFields) :
         Count(NamesOf(OptStruct.fields), OptResult.reorderedFields[k]) > 0

\* C16 witness: User embeds Base and *Base, two fields named Base; the sort
\* moves Name between them.
C16_Witness ==
  /\ Optimized
  /\ OptStruct.name = "User"
  /\ NamesOf(OptStruct.fields) = << "Base", "Base", "Name", "Active" >>
  /\ OptResult.reorderedFields = << "Base", "Name", "Base", "Active" >>

\* The fields of the optimized struct in the order p, as the parser hands
\* them to calculateStructLayout.
FieldsInOrder(p) ==
  [k \in 1..Len(OptStruct.fields) |->
     [name       |-> OptStruct.fields[p[k]].name,
      typeName   |-> OptStruct.fields[p[k]].typeName,
      lineNumber |-> OptStruct.fields[p[k]].lineNumber]]

\* optimizeStruct on the layout of the fields in the order p.
OptimizedAgain(p) ==
  optimizeStruct(OptCalc,
    calculateStructLayout(OptCalc, OptStruct.name, FieldsInOrder(p),
                          OptStruct.lineNumber, OptStruct.endLineNumber))

\* p is an order of the fields that reorderedFields names.
IsReturnedOrder(p) ==
  OptResult.reorderedFields =
    [k \in 1..Len(OptStruct.fields) |-> OptStruct.fields[p[k]].name]

SecondRunIsQuiet(second) ==
  /\ second.bytesSaved = 0
  /\ second.reorderedFields = OptResult.reorderedFields

\* C17: the fields laid out in the order optimizeStruct returned and
\* optimized again: bytesSaved is 0 and the order is the same.  (Where two
\* fields share a name, reorderedFields names more than one order of the
\* fields; the order meant is one of them.)
C17_Idempotent ==
  Optimized =>
    \E p \in Orderings(Len(OptStruct.fields)) :
      IsReturnedOrder(p) /\ SecondRunIsQuiet(OptimizedAgain(p))

\* C17 witness: S{a [2]byte; b string; c [2]byte} saves bytes with the order
\* b, a, c, and nothing more on the second run.
C17_Witness ==
  /\ Optimized
  /\ OptStruct.name = "S"
  /\ Len(OptStruct.fields) = 3
  /\ OptStruct.fields[1].typeName = ArrayOf(2, Named("byte"))
  /\ OptStruct.fields[3].typeName = ArrayOf(2, Named("byte"))
  /\ OptResult.reorderedFields = << "b", "a", "c" >>
  /\ OptResult.bytesSaved > 0
  /\ OptimizedAgain(<< 2, 1, 3 >>).bytesSaved = 0

\* The offsets of the fields of a layout.
OffsetsOf(struct) == [k \in 1..Len(struct.fields) |-> struct.fields[k].offset]

\* UserProfile laid out again in the order Name, UserID, Balance, Active, Age.
UserProfileReordered ==
  calculateStructLayout(OptCalc, OptStruct.name, FieldsInOrder(<< 3, 2, 5, 1, 4 >>),
                        OptStruct.lineNumber, OptStruct.endLineNumber)

\* C18: on amd64 UserProfile (Active bool, UserID uint64, Name string,
\* Age uint8, Balance float64) has the offsets 0, 8, 16, 32, 40, totalSize 48
\* and totalPadding 14; optimizeStruct returns Name, UserID, Balance, Active,
\* Age, optimizedSize 40 and bytesSaved 8, and that order has the offsets
\* 0, 16, 24, 32, 33, totalSize 40 and totalPadding 6.
C18_UserProfile ==
  (Optimized /\ arch = "amd64" /\ content = UserProfileDocument) =>
    /\ NamesOf(OptStruct.fields) = << "Active", "UserID", "Name", "Age", "Balance" >>
    /\ OffsetsOf(OptStruct) = << 0, 8, 16, 32, 40 >>
    /\ OptStruct.totalSize = 48
    /\ OptStruct.totalPadding = 14
    /\ OptResult.reorderedFields = << "Name", "UserID", "Balance", "Active", "Age" >>
    /\ OptResult.originalSize = 48
    /\ OptResult.optimizedSize = 40
    /\ OptResult.bytesSaved = 8
    /\ OffsetsOf(UserProfileReordered) = << 0, 16, 24, 32, 33 >>
    /\ UserProfileReordered.totalSize = 40
    /\ UserProfileReordered.totalPadding = 6

\* C18 witness: the optimize command ran on UserProfile on amd64.
C18_Witness ==
  /\ Optimized
  /\ arch = "amd64"
  /\ content = UserProfileDocument
  /\ OptStruct.name = "UserProfile"
  /\ OptResult.bytesSaved = 8

\* The bytes [offset, offset + size) of the field lie in more than one
\* window of CACHE_LINE_SIZE bytes.
InSeveralWindows(field) ==
  /\ field.size > 0
  /\ field.offset \div CACHE_LINE_SIZE
       # (field.offset + field.size - 1) \div CACHE_LINE_SIZE

\* The names of the fields among the first n whose bytes do.
RECURSIVE NamesInSeveralWindows(_, _)
NamesInSeveralWindows(fields, n) ==
  IF n = 0 THEN << >>
  ELSE IF InSeveralWindows(fields[n])
    THEN Append(NamesInSeveralWindows(fields, n - 1), fields[n].name)
    ELSE NamesInSeveralWindows(fields, n - 1)

\* C19: crossesCacheLine is true exactly for the fields whose bytes lie in
\* more than one 64-byte window, fields of no bytes included, and hotFields
\* lists the names of those fields in declaration order.
C19_CrossesCacheLine ==
  \A n \in StructIndexes :
    /\ \A i \in 1..Len(FieldsOf(n)) :
         FieldsOf(n)[i].crossesCacheLine <=> InSeveralWindows(FieldsOf(n)[i])
    /\ structs[n].hotFields = NamesInSeveralWindows(FieldsOf(n), Len(FieldsOf(n)))

\* A struct whose first field has 60 bytes and whose second field has 8.
SixtyThenEight(n) ==
  /\ Len(FieldsOf(n)) >= 2
  /\ FieldsOf(n)[1].size = 60
  /\ FieldsOf(n)[2].size = 8

\* C20 as stated: after a first field of 60 bytes, a second field of 8 bytes
\* crosses a cache line, from line 0 to line 1, whatever its alignment.
C20_SecondFieldCrosses ==
  \A n \in StructIndexes :
    SixtyThenEight(n)
      => /\ FieldsOf(n)[2].crossesCacheLine
         /\ FieldsOf(n)[2].cacheLineStart = 0
         /\ FieldsOf(n)[2].cacheLineEnd = 1

\* C20 amended: it does when its alignment is 1, 2 or 4 (it is placed at
\* offset 60); with alignment 8 it is placed at offset 64, in line 1 alone.
C20_SecondFieldByAlignment ==
  \A n \in StructIndexes :
    SixtyThenEight(n)
      => IF FieldsOf(n)[2].alignment \in {1, 2, 4}
         THEN /\ FieldsOf(n)[2].offset = 60
              /\ FieldsOf(n)[2].crossesCacheLine
              /\ FieldsOf(n)[2].cacheLineStart = 0
              /\ FieldsOf(n)[2].cacheLineEnd = 1
         ELSE /\ FieldsOf(n)[2].alignment = 8
              /\ FieldsOf(n)[2].offset = 64
              /\ ~ FieldsOf(n)[2].crossesCacheLine
              /\ FieldsOf(n)[2].cacheLineStart = 1
              /\ FieldsOf(n)[2].cacheLineEnd = 1

\* C20 witness: Padded{data [60]byte; counter [2]int32}: counter crosses.
C20_Witness ==
  \E n \in StructIndexes :
    /\ SixtyThenEight(n)
    /\ FieldsOf(n)[1].typeName = ArrayOf(60, Named("byte"))
    /\ FieldsOf(n)[2].typeName = ArrayOf(2, Named("int32"))
    /\ FieldsOf(n)[2].alignment = 4
    /\ FieldsOf(n)[2].crossesCacheLine

\* The window of CACHE_LINE_SIZE bytes number k of a layout of totalSize
\* bytes, cut at the end of the layout.
WindowStart(k) == CACHE_LINE_SIZE * k
WindowEnd(k, totalSize) == Min(CACHE_LINE_SIZE * k + CACHE_LINE_SIZE - 1, totalSize - 1)

\* The segments are the consecutive windows of a layout of totalSize bytes,
\* and there are cacheLinesCrossed of them.
SegmentsAreWindows(struct) ==
  /\ Len(struct.cacheLines) = CeilDiv(struct.totalSize, CACHE_LINE_SIZE)
  /\ struct.cacheLinesCrossed = Len(struct.cacheLines)
  /\ \A l \in 1..Len(struct.cacheLines) :
       /\ struct.cacheLines[l].lineNumber = l - 1
       /\ struct.cacheLines[l].startOffset = WindowStart(l - 1)
       /\ struct.cacheLines[l].endOffset = WindowEnd(l - 1, struct.totalSize)

\* bytesUsed + bytesPadding is the length of the window in every segment.
WindowsAccounted(struct) ==
  \A l \in 1..Len(struct.cacheLines) :
    struct.cacheLines[l].bytesUsed + struct.cacheLines[l].bytesPadding
      = struct.cacheLines[l].endOffset - struct.cacheLines[l].startOffset + 1

\* C21: the cacheLines of a layout of at least one byte are the consecutive
\* 64-byte windows that partition [0, totalSize): there are
\* ceil(totalSize/64) == cacheLinesCrossed segments, segment k starts at
\* 64*k, and bytesUsed + bytesPadding is the size of the window in each.
C21_Partition ==
  \A n \in StructIndexes :
    structs[n].totalSize > 0
      => SegmentsAreWindows(structs[n]) /\ WindowsAccounted(structs[n])

\* What holds of it: the same for the layouts of at most MAX_SAFE_INTEGER
\* bytes, the window of the last segment being cut at totalSize.
PartitionOfExactLayouts ==
  \A n \in StructIndexes :
    (structs[n].totalSize > 0 /\ structs[n].totalSize <= MAX_SAFE_INTEGER)
      => SegmentsAreWindows(structs[n]) /\ WindowsAccounted(structs[n])

\* The struct names a document declares.
DeclaredNames(lines) ==
  { Named(lines[j].names[1]) : j \in { k \in 1..Len(lines) : lines[k].kind = "struct" } }

\* The documents handed to parseStructs so far, in order.
ParsedContents == SelectSeq(calls, LAMBDA call : call.op = "parseStructs")

\* The names declared in a document parsed earlier and not in the last one.
DeclaredOnlyEarlier ==
  UNION { DeclaredNames(ParsedContents[k].content) : k \in 1..Len(ParsedContents) }
    \ DeclaredNames(content)

\* C22: after any sequence of parseStructs calls the registry holds exactly
\* the struct names the content of the last call declares, and a name
\* declared only in an earlier content resolves as an unknown type, of the
\* size and alignment of a pointer.
C22_NoLeak ==
  Len(ParsedContents) > 0
    => /\ content = ParsedContents[Len(ParsedContents)].content
       /\ DOMAIN structRegistry = DeclaredNames(content)
       /\ \A t \in DeclaredOnlyEarlier :
            getTypeInfo(Calc, t, {}) = Info(PointerWidth, PointerWidth)
       /\ calls[Len(calls)].op = "parseStructs"
            => \A n \in StructIndexes : \A i \in 1..Len(FieldsOf(n)) :
                 FieldsOf(n)[i].typeName \in DeclaredOnlyEarlier
                   => /\ FieldsOf(n)[i].size = PointerWidth
                      /\ FieldsOf(n)[i].alignment = PointerWidth

\* C22 witness: A and B were declared by an earlier document; the last one
\* names them in S without declaring them.
C22_Witness ==
  /\ content = LoneDocument
  /\ Named("A") \in DeclaredOnlyEarlier
  /\ Len(structs) = 1
  /\ structs[1].fields[1].typeName = Named("A")
  /\ structs[1].fields[1].size = PointerWidth
  /\ calls[Len(calls)].op = "parseStructs"

\* The lines of the i-th struct declaration of the last content, and the
\* content with its declarations put in the order p.
RECURSIVE Reordered(_, _)
DeclarationLines(i) ==
  SubSeq(content, structs[i].lineNumber + 1, structs[i].endLineNumber + 1)

Reordered(p, k) ==
  IF k = 0 THEN << >>
  ELSE Reordered(p, k - 1) \o DeclarationLines(p[k]) \o << BlankLine >>

\* A StructInfo without the line numbers of its declaration.
LayoutOf(struct) ==
  [struct EXCEPT !.lineNumber = 0, !.endLineNumber = 0,
     !.fields = [i \in 1..Len(struct.fields) |->
                   [struct.fields[i] EXCEPT !.lineNumber = 0]]]

\* parseStructs gives the declarations, taken in the order p, the layouts
\* it gave them in the order of the last content.
SameLayouts(reparsed, p) ==
  /\ Len(reparsed) = Len(structs)
  /\ \A k \in 1..Len(reparsed) : LayoutOf(reparsed[k]) = LayoutOf(structs[p[k]])

OrderIndependent ==
  \A p \in Orderings(Len(structs)) :
    SameLayouts(parseStructs(Calc, Reordered(p, Len(structs))).structs, p)

\* A field whose type is a struct declared further down has the size
\* parseStructs reports for that struct.
LaterDeclaredInFull ==
  \A n \in StructIndexes : \A i \in 1..Len(FieldsOf(n)) :
    \A m \in StructIndexes :
      (m > n /\ FieldsOf(n)[i].typeName = Named(structs[m].name))
        => FieldsOf(n)[i].size = structs[m].totalSize

\* C23: the layouts do not depend on the order of the declarations: a field
\* whose type is declared later in the same content has that type's full
\* size, and putting the declarations in another order changes no layout.
C23_OrderIndependent ==
  calls[Len(calls)].op = "parseStructs"
    => LaterDeclaredInFull /\ OrderIndependent

\* What holds of it: the order of the declarations changes no layout, and
\* outside MutualDocument a later declared type comes with its full size.
ReorderingChangesNothing ==
  calls[Len(calls)].op = "parseStructs" => OrderIndependent

AcyclicLaterDeclaredInFull ==
  (calls[Len(calls)].op = "parseStructs" /\ content # MutualDocument)
    => LaterDeclaredInFull

\* The architecture named by the last of the first k calls that names one,
\* and the definitions registered by the first k calls and not cleared since.
RECURSIVE ArchAfter(_)
ArchAfter(k) ==
  IF calls[k].op \in {"new MemoryCalculator", "new GoParser", "setArchitecture"}
  THEN calls[k].arch
  ELSE ArchAfter(k - 1)

RECURSIVE RegistryAfter(_)
RegistryAfter(k) ==
  IF k = 0 THEN << >>
  ELSE IF calls[k].op = "registerStruct"
    THEN (calls[k].typeName :> calls[k].fields) @@ RegistryAfter(k - 1)
  ELSE IF calls[k].op = "clearStructRegistry" THEN << >>
  ELSE RegistryAfter(k - 1)

\* A calculator made for the architecture now in force, with the
\* definitions now registered and nothing else behind it.
FreshCalculator ==
  [arch |-> ArchAfter(Len(calls)), structRegistry |-> RegistryAfter(Len(calls))]

LastCall == calls[Len(calls)]

\* C24: after any sequence of setArchitecture, registerStruct,
\* clearStructRegistry, getTypeInfo and calculateStructSize calls, what
\* getTypeInfo and calculateStructSize return is what a fresh calculator of
\* the current architecture and the same registered definitions returns.
C24_NothingCached ==
  /\ LastCall.op = "getTypeInfo"
       => typeInfo = << getTypeInfo(FreshCalculator, LastCall.typeName, {}) >>
  /\ LastCall.op = "calculateStructSize"
       => typeInfo = << calculateStructSize(FreshCalculator, LastCall.fields, {}) >>

\* C24 witness: uintptr is sized on amd64, the architecture is switched to
\* 386, and uintptr is sized again: 4 bytes after 8.
C24_Witness ==
  /\ Len(calls) = 4
  /\ calls[1].arch = "amd64"
  /\ calls[2].op = "getTypeInfo" /\ calls[2].typeName = Named("uintptr")
  /\ calls[3].op = "setArchitecture" /\ calls[3].arch = "386"
  /\ calls[4].op = "getTypeInfo" /\ calls[4].typeName = calls[2].typeName
  /\ typeInfo = << Info(4, 4) >>

\* The last parseStructs call, and the calculator as it was in that call.
RECURSIVE LastParse(_)
LastParse(k) ==
  IF k = 0 THEN 0
  ELSE IF calls[k].op = "parseStructs" THEN k
  ELSE LastParse(k - 1)

CalculatorAtParse ==
  [arch |-> ArchAfter(LastParse(Len(calls))), structRegistry |-> structRegistry]

\* C25: optimizeStruct(s) returns what it returns for s with the calculator
\* that computed s, whatever was called on the shared calculator in between,
\* and bytesSaved is never negative.
C25_PureOfLayout ==
  LastCall.op = "optimizeStruct"
    => /\ OptResult = optimizeStruct(CalculatorAtParse, OptStruct)
       /\ OptResult.bytesSaved >= 0

\* What holds of it: both, when nothing was called on the calculator between
\* the parseStructs that computed s and optimizeStruct(s).
FreshlyParsedIsPure ==
  (LastCall.op = "optimizeStruct" /\ CalculatorAtParse = Calc)
    => /\ OptResult = optimizeStruct(CalculatorAtParse, OptStruct)
       /\ OptResult.bytesSaved >= 0

\* The text generateOptimizedCode returned, and the name and type of every
\* field the struct rewritten in it declares, as parseStructs reads them.
Code == optimization[1].code
RewrittenFields == DropLine(ScanBody(Code, OptStruct.lineNumber + 2, << >>).fields)

SameMultiset(a, b) ==
  /\ \A i \in 1..Len(a) : Count(a, a[i]) = Count(b, a[i])
  /\ \A i \in 1..Len(b) : Count(a, b[i]) = Count(b, b[i])

LinesAfter == Len(content) - (OptStruct.endLineNumber + 1)

\* The lines before struct.lineNumber and after struct.endLineNumber are the
\* first and the last lines of the text, unchanged and in order.
OutsideUnchanged ==
  /\ SubSeq(Code, 1, OptStruct.lineNumber) = SubSeq(content, 1, OptStruct.lineNumber)
  /\ LinesAfter > 0
       => SubSeq(Code, Len(Code) - LinesAfter + 1, Len(Code))
            = SubSeq(content, Len(content) - LinesAfter + 1, Len(content))
  /\ Code[OptStruct.lineNumber + 1] = content[OptStruct.lineNumber + 1]

SameFields == SameMultiset(RewrittenFields, DropLine(OptStruct.fields))

\* C26: the text generateOptimizedCode returns leaves every line outside the
\* struct unchanged and in order, and the rewritten struct declares the
\* fields of the original, each exactly once, also when several names share
\* a line or two fields have the same name.
C26_SafeRefactoring ==
  Optimized => OutsideUnchanged /\ SameFields

\* What holds of it: the lines outside the struct are unchanged, and the
\* fields are the same when every field has a line and a name of its own.
OneFieldPerLine(fields) ==
  \A i, j \in 1..Len(fields) :
    i # j => /\ fields[i].lineNumber # fields[j].lineNumber
             /\ fields[i].name # fields[j].name

OutsideAlwaysUnchanged == Optimized => OutsideUnchanged

SafeWithOneFieldPerLine ==
  (Optimized /\ OneFieldPerLine(OptStruct.fields)) => SameFields

\* C27: at every point of analyzeWorkspaceCommand results holds at most
\* MAX_RESULTS entries and at most MAX_FILES files have been processed.
C27_Bounded ==
  /\ Len(analysis.results) <= MAX_RESULTS
  /\ analysis.index <= MAX_FILES

\* What holds of it: at most MAX_FILES files are processed, and results is
\* below MAX_RESULTS whenever another file is taken up.
FilesBounded == analysis.index <= MAX_FILES /\ analysis.filesToProcess <= MAX_FILES

ResultsBelowLimitAtFile ==
  [][(analysis'.index > analysis.index) => Len(analysis.results) < MAX_RESULTS]_vars

\* The updateDecorations calls made after the n-th event and before the next.
UpdatesAfter(n) ==
  { k \in 1..Len(decoration.updates) : decoration.updates[k].afterEvent = n }

\* At most one timeout is pending; every updateDecorations call comes from a
\* change event, is made for the editor of the last event before it and at
\* least DebounceDelay after it, while the extension is active; and no event
\* gets two calls.
DebounceSafe ==
  /\ Cardinality(decoration.timers) <= 1
  /\ \A k \in 1..Len(decoration.updates) :
       /\ decoration.updates[k].afterEvent >= 1
       /\ decoration.updates[k].editor
            = decoration.events[decoration.updates[k].afterEvent].editor
       /\ decoration.updates[k].active
       /\ decoration.updates[k].afterEvent < Len(decoration.events)
            => decoration.events[decoration.updates[k].afterEvent + 1].gap >= DebounceDelay
  /\ \A n \in 1..Len(decoration.events) : Cardinality(UpdatesAfter(n)) <= 1
  /\ ~ decoration.active => decoration.timers = {}

\* C28 as stated: besides, every burst has had its call: when an event
\* arrives DebounceDelay or more after the previous one, updateDecorations
\* has been called for the previous one.
C28_OneCallPerBurst ==
  /\ DebounceSafe
  /\ \A n \in 1..Len(decoration.events) :
       (n > 1 /\ decoration.events[n].gap >= DebounceDelay)
         => UpdatesAfter(n - 1) # {}

\* After the n-th event the call for it is made, unless another event or
\* deactivate comes before its timeout fires.
CalledUnlessOvertaken(n) ==
  (Len(decoration.events) = n /\ decoration.active)
    ~> \/ UpdatesAfter(n) # {}
       \/ Len(decoration.events) > n
       \/ ~ decoration.active

\* C28 amended: at most one timeout is pending; a burst of events causes at
\* most one updateDecorations call, after its last event and for the editor
\* of that event, and exactly one when no further event and no deactivate
\* comes before its timeout fires; after deactivate none fires.
C28_Debounced ==
  /\ []DebounceSafe
  /\ \A n \in 1..MaxEvents : CalledUnlessOvertaken(n)

\* C28 witness: a burst of three events, a.go then b.go twice, and one
\* updateDecorations call, for b.go.
C28_Witness ==
  /\ Len(decoration.events) = 3
  /\ decoration.events[1].editor = "a.go"
  /\ decoration.events[2].gap < DebounceDelay
  /\ decoration.events[3].gap < DebounceDelay
  /\ Len(decoration.updates) = 1
  /\ decoration.updates[1].editor = "b.go"
  /\ decoration.updates[1].afterEvent = 3

\* C29: in every StructInfo with at least one field the cache-line indices
\* of every field are well formed: 0 <= cacheLineStart <= cacheLineEnd, and
\* both index a segment: cacheLineEnd < cacheLinesCrossed = the number of
\* cacheLines; fields of no bytes included.
C29_IndicesWellFormed ==
  \A n \in StructIndexes :
    /\ Len(FieldsOf(n)) > 0 => structs[n].cacheLinesCrossed = Len(structs[n].cacheLines)
    /\ \A i \in 1..Len(FieldsOf(n)) :
         /\ 0 <= FieldsOf(n)[i].cacheLineStart
         /\ FieldsOf(n)[i].cacheLineStart <= FieldsOf(n)[i].cacheLineEnd
         /\ FieldsOf(n)[i].cacheLineEnd < structs[n].cacheLinesCrossed

\* What holds of it: the indices of the fields of at least one byte, in
\* layouts of at most MAX_SAFE_INTEGER bytes.
IndicesOfFieldsWithBytes ==
  \A n \in StructIndexes :
    structs[n].totalSize <= MAX_SAFE_INTEGER
      => /\ structs[n].cacheLinesCrossed = Len(structs[n].cacheLines)
         /\ \A i \in 1..Len(FieldsOf(n)) :
              FieldsOf(n)[i].size > 0
                => /\ 0 <= FieldsOf(n)[i].cacheLineStart
                   /\ FieldsOf(n)[i].cacheLineStart <= FieldsOf(n)[i].cacheLineEnd
                   /\ FieldsOf(n)[i].cacheLineEnd < structs[n].cacheLinesCrossed

\* Sums over the cache lines and the fields of a struct.
RECURSIVE SumBytesUsed(_, _)
SumBytesUsed(cacheLines, n) ==
  IF n = 0 THEN 0 ELSE SumBytesUsed(cacheLines, n - 1) + cacheLines[n].bytesUsed

RECURSIVE SumBytesPadding(_, _)
SumBytesPadding(cacheLines, n) ==
  IF n = 0 THEN 0 ELSE SumBytesPadding(cacheLines, n - 1) + cacheLines[n].bytesPadding

RECURSIVE SumSizes(_, _)
SumSizes(fields, n) ==
  IF n = 0 THEN 0 ELSE SumSizes(fields, n - 1) + fields[n].size

AccountingOf(struct) ==
  /\ SumBytesUsed(struct.cacheLines, Len(struct.cacheLines))
       = SumSizes(struct.fields, Len(struct.fields))
  /\ SumBytesPadding(struct.cacheLines, Len(struct.cacheLines)) = struct.totalPadding
  /\ \A l \in 1..Len(struct.cacheLines) :
       /\ struct.cacheLines[l].bytesUsed >= 0
       /\ struct.cacheLines[l].bytesPadding >= 0

\* C30: in every StructInfo the bytesUsed of the cache lines add up to the
\* sizes of the fields, the bytesPadding add up to totalPadding, and no
\* bytesUsed or bytesPadding is negative.
C30_Accounting ==
  \A n \in StructIndexes : AccountingOf(structs[n])

\* What holds of it: the same for the layouts of at most MAX_SAFE_INTEGER
\* bytes.
AccountingOfExactLayouts ==
  \A n \in StructIndexes :
    structs[n].totalSize <= MAX_SAFE_INTEGER => AccountingOf(structs[n])

====
